---- MODULE Spec2Model ----
(***************************************************************************)
(* GoUp: request dispatch, admission control and plugin pipeline.          *)
(*                                                                         *)
(* Start-up groups the site configurations by port and builds, per port,   *)
(* either a direct handler (one site) or a host-keyed radix tree (several  *)
(* sites).  Every request then runs, on its own goroutine, through the     *)
(* port's main handler, the site's concurrency middleware, the plugin      *)
(* middleware (BeforeRequest / HandleRequest / AfterRequest) and the       *)
(* site's static or proxy handler.  One action of the model is one such    *)
(* handler step of one request, so requests interleave at every call.      *)
(*                                                                         *)
(* Strings that the code cuts (Host headers, URL paths) are sequences of   *)
(* tokens, so that strings.Index, HasPrefix and HasSuffix are computed.    *)
(***************************************************************************)
EXTENDS Integers, Sequences, FiniteSets, TLC

\* ------------------------------------------------------------------ bounds
\* requests (one goroutine each) sent to the two connection-limited sites
MaxReq == 3
\* requests sent when every routing case and plugin decision is exercised
MaxPluginReq == 2
\* requests sent when the logged status is compared with the one sent
MaxLogReq == 2
\* Write calls of the inner handler in the compression stage
MaxWrites == 2
\* configurations for which the reverse proxy pool is asked
MaxProxyCalls == 2
\* capacity of the log channel (the server makes it with 10000 places)
LogBufferSize == 2
\* goroutines whose logging middleware logs at the same time
MaxProducers == 2
\* calls of Log in all
MaxLogCalls == 4
\* longest time, in seconds, the inner handler of the timed request takes
MaxDelay == 62
\* requests sent while the ports start, each in a goroutine of its own
MaxStartReq == 1
\* requests one client sends to the site with protected paths
MaxAuthReq == 2
\* requests sent to hosts of every port, on their own port and on another
MaxDispatchReq == 2
\* questions in one DNS query
MaxQuestions == 2
\* upstream resolvers in the DNS configuration
MaxUpstreams == 2

\* ------------------------------------------------------- program constants
StatusOK == 200
StatusUnauthorized == 401
StatusNotFound == 404
StatusInternalServerError == 500
StatusServiceUnavailable == 503
\* AuthPlugin rejects session_expiration above one day
MaxSessionExpiration == 86400
\* createHandler's default for request_timeout = 0, in seconds
DefaultRequestTimeout == 60

\* ------------------------------------------------------------ string model
\* strings.Index(host, ":"), 0 standing for Go's -1
IndexColon(host) ==
    IF \E i \in 1..Len(host) : host[i] = ":"
    THEN CHOOSE i \in 1..Len(host) : host[i] = ":" /\ \A j \in 1..(i-1) : host[j] # ":"
    ELSE 0

\* Faulty variant: the Host header is looked up as it came, port included.
StripPortNot(host) == host

\* host = host[:colonIndex] when a colon is present
StripPort(host) ==
    IF IndexColon(host) # 0 THEN SubSeq(host, 1, IndexColon(host) - 1) ELSE host

\* strings.HasPrefix / strings.HasSuffix
HasPrefix(s, prefix) ==
    Len(s) >= Len(prefix) /\ SubSeq(s, 1, Len(prefix)) = prefix

HasSuffix(s, suffix) ==
    Len(s) >= Len(suffix) /\ SubSeq(s, Len(s) - Len(suffix) + 1, Len(s)) = suffix

\* the empty map
NoEntries == [k \in {} |-> FALSE]

\* ----------------------------------------------------------- configuration
\* The deployed site configurations, in configuration order.  Sites 1 to 3
\* share port 80 (virtual hosts), site 4 is alone on port 81.
\*   1: static site, one connection at a time, no plugin block at all
\*   2: two connections, PHP and Auth enabled, DockerBasePlugin block with
\*      enable = false
\*   3: AuthPlugin block whose session_expiration is out of range, so that
\*      OnInitForSite fails
\*   4: single-site port, unlimited connections, PHP block without "enable",
\*      logging switched off
\*   5: DockerStandardPlugin enabled, every path proxied to the container
\* Sites 6 to 8 share port 82, sites 9 and 10 have a port each (83, 84):
\*   6: static site whose root directory does not exist
\*   7: static site with nothing wrong, one connection at a time
\*   8: proxy site whose proxy_pass url.Parse rejects
\*   9: as 6, alone on its port
\*  10: as 8, alone on its port
\* enable_logging is a *bool: unset (nil), true or false
Configs ==
    << [ domain |-> <<"a">>, port |-> 80, max_concurrent_connections |-> 1,
         root_directory |-> "/srv/www", proxy_pass |-> "",
         enable_logging |-> "unset",
         plugin_configs |-> NoEntries ],
       [ domain |-> <<"b">>, port |-> 80, max_concurrent_connections |-> 2,
         root_directory |-> "/srv/www", proxy_pass |-> "",
         enable_logging |-> "true",
         plugin_configs |->
           [ k \in {"PHPPlugin", "AuthPlugin", "DockerBasePlugin"} |->
               CASE k = "PHPPlugin" -> [ enable |-> TRUE ]
                 [] k = "AuthPlugin" ->
                      [ enable |-> TRUE,
                        protected_paths |-> { <<"/", "protected">> },
                        credentials |-> { <<"admin", "pw">> },
                        session_expiration |-> -1 ]
                 [] OTHER -> [ enable |-> FALSE ] ] ],
       [ domain |-> <<"c">>, port |-> 80, max_concurrent_connections |-> 0,
         root_directory |-> "/srv/www", proxy_pass |-> "",
         enable_logging |-> "true",
         plugin_configs |->
           [ k \in {"AuthPlugin"} |->
               [ enable |-> TRUE, protected_paths |-> {}, credentials |-> {},
                 session_expiration |-> 90000 ] ] ],
       [ domain |-> <<"d">>, port |-> 81, max_concurrent_connections |-> 0,
         root_directory |-> "", proxy_pass |-> "http://backend",
         enable_logging |-> "false",
         plugin_configs |->
           [ k \in {"PHPPlugin"} |-> [ fpm_addr |-> "/run/php.sock" ] ] ],
       [ domain |-> <<"e">>, port |-> 80, max_concurrent_connections |-> 0,
         root_directory |-> "/srv/www", proxy_pass |-> "",
         enable_logging |-> "true",
         plugin_configs |->
           [ k \in {"DockerStandardPlugin"} |->
               [ enable |-> TRUE, proxy_paths |-> { <<"/">> } ] ] ],
       [ domain |-> <<"f">>, port |-> 82, max_concurrent_connections |-> 0,
         root_directory |-> "/srv/gone", proxy_pass |-> "",
         enable_logging |-> "true", plugin_configs |-> NoEntries ],
       [ domain |-> <<"g">>, port |-> 82, max_concurrent_connections |-> 1,
         root_directory |-> "/srv/www", proxy_pass |-> "",
         enable_logging |-> "true", plugin_configs |-> NoEntries ],
       [ domain |-> <<"h">>, port |-> 82, max_concurrent_connections |-> 0,
         root_directory |-> "", proxy_pass |-> "::bad",
         enable_logging |-> "true", plugin_configs |-> NoEntries ],
       [ domain |-> <<"i">>, port |-> 83, max_concurrent_connections |-> 0,
         root_directory |-> "/srv/gone", proxy_pass |-> "",
         enable_logging |-> "true", plugin_configs |-> NoEntries ],
       [ domain |-> <<"j">>, port |-> 84, max_concurrent_connections |-> 0,
         root_directory |-> "", proxy_pass |-> "::bad",
         enable_logging |-> "true", plugin_configs |-> NoEntries ] >>

\* the directories os.Stat finds on the machine
Directories == { "/srv/www" }

Sites == 1..Len(Configs)
Ports == { Configs[s].port : s \in Sites }
Domains == { Configs[s].domain : s \in Sites }

\* portConfigs: configs grouped by port, each group in configuration order
portConfigs ==
    [ port \in Ports |->
        SelectSeq([ s \in Sites |-> s ], LAMBDA s : Configs[s].port = port) ]

PortGroup(port) == portConfigs[port]

\* plugins in registration order (main.go), restricted to the plugins whose
\* request gating differs: per-host config (PHP), per-host config plus
\* session state (Auth), and none (DockerBase)
Registered == << "PHPPlugin", "AuthPlugin", "DockerBasePlugin", "DockerStandardPlugin" >>

\* docker or podman is found in PATH by exec.LookPath
DockerInPath == TRUE

\* ensureContainer, called by DockerStandardPlugin.OnInitForSite, finds or
\* starts the site's container: not while the server starts (the error is
\* logged as a warning and the container is tried again on a request)
ContainerAtInit == FALSE

\* ------------------------------------------------------------------- state
VARIABLES
    load,            \* the deployment: ports configured, request slots and inputs
    onInit,          \* InitPlugins: calls so far and whether an OnInit failed
    starting,        \* ports whose start goroutine is initialising its sites
    started,         \* ports whose start function has run
    serving,         \* ports whose listener accepts requests
    radixTree,       \* per port: domain -> site whose handler was inserted
    initCalls,       \* per site: calls of InitPluginsForSite so far
    phpSiteConfigs,  \* PHPPlugin.siteConfigs: domain -> config
    authSiteConfigs, \* AuthPlugin.siteConfigs: domain -> config
    authStates,      \* AuthPlugin.states: domain -> client has a session
    dockerConfig,    \* DockerBasePlugin.Config (one struct for all sites)
    dockerStandardStates, \* DockerStandardPlugin.states: domain -> state
    sem,             \* per site: tokens in the semaphore channel
    pc,              \* per request: where its goroutine stands
    rq,              \* per request: port, Host header, URL path, credentials
    site,            \* per request: site whose composed handler serves it
    idx,             \* per request: position in the active plugin list
    resp,            \* per request: status written to the client, 0 = none
    log,             \* per request: handlers and hooks run, in order
    statusCode,      \* per request: responseWriter.statusCode of the logging wrapper
    logged,          \* per request: status_code of its log entry, 0 = no entry
    sharedProxyMap,  \* reverse proxy pool: key -> proxy instance
    proxies,         \* proxy instances built so far: the target of each
    siteProxy,       \* proxy instance returned for each configuration
    enableBench,     \* StartServers was asked for the benchmark wrapper
    chains,          \* middleware managers on the heap: each one's wrappers
    mwManagerCopy,   \* per site: the start function's copy of the base chain
    siteMwManager,   \* per site: createHandler's copy of that copy
    siteHandler,     \* per site: wrappers of the built handler, outermost first
    chainPc,         \* per site: how far building its handler has come
    used,            \* per site: wrappers createHandler has registered so far
    gzReq,           \* compression stage: the request's headers
    gzPc,            \* compression stage: where the request stands
    header,          \* compression stage: the response's header map
    gw,              \* compression stage: the smartGzipWriter, if one was made
    gzipWriter,      \* compression stage: bytes the gzip.Writer holds back
    gzipWriterPool,  \* compression stage: Get, Close and Put calls on pooled writers
    wire,            \* compression stage: status and body bytes sent on
    written,         \* compression stage: the handler's Write calls so far
    decision,        \* compression stage: the headers at the first write
    logChan,         \* AsyncLogger.logChan: the entries queued for the worker
    logEntryPool,    \* AsyncLogger.logEntryPool: the entries free for reuse
    logEntries,      \* the LogEntry objects allocated so far, by address
    logPc,           \* per producer: where its logging middleware stands
    entry,           \* per producer: the entry it holds, 0 if none
    workerEntry,     \* the entry the worker is writing out, 0 if none
    logCalls,        \* calls of Log so far
    drops,           \* entries Log has dropped so far
    logClosed,       \* AsyncLogger.logChan has been closed by Shutdown
    tmConf,          \* timed request: the site's request_timeout, in seconds
    tmDelay,         \* timed request: seconds the inner handler takes
    tmClock,         \* timed request: seconds since the handler was entered
    tmPc,            \* timed request: where the request stands
    tmStatus,        \* timed request: status the handler chain has written
    tmWire,          \* timed request: status a client of the port receives
    static,          \* one ServeStatic call: the request, the files, the answer
    tokenAuth,       \* one TokenAuthMiddleware call: config, headers, the answer
    dns              \* one DNS query: config, questions, upstreams asked, replies

\* the reverse proxy pool
proxyVars == << sharedProxyMap, proxies, siteProxy >>

\* the port servers, their plugins and their requests
serverVars == << load, onInit, starting, started, serving, radixTree, initCalls, phpSiteConfigs,
                 authSiteConfigs, authStates, dockerConfig, dockerStandardStates,
                 sem, pc, rq, site, idx, resp, log, statusCode, logged >>

\* the middleware chains from which the sites' handlers are built
chainVars == << enableBench, chains, mwManagerCopy, siteMwManager, siteHandler,
                chainPc, used >>

\* one request in the compression stage
gzipVars == << gzReq, gzPc, header, gw, gzipWriter, gzipWriterPool, wire, written,
              decision >>

\* the asynchronous logger, its producers and its worker
loggerVars == << logChan, logEntryPool, logEntries, logPc, entry, workerEntry,
                 logCalls, drops, logClosed >>

\* one request whose handler takes its time
timeoutVars == << tmConf, tmDelay, tmClock, tmPc, tmStatus, tmWire >>

\* single calls of the static file handler and of the token check
callVars == << static, tokenAuth, dns >>

\* everything outside the port servers
sideVars == << proxyVars, chainVars, gzipVars, loggerVars, timeoutVars, callVars >>

\* what the steps of the proxy pool and of chain building leave alone
exceptProxy == << serverVars, chainVars, gzipVars, loggerVars, timeoutVars, callVars >>
exceptChains == << serverVars, proxyVars, gzipVars, loggerVars, timeoutVars, callVars >>
exceptGzip == << serverVars, proxyVars, chainVars, loggerVars, timeoutVars, callVars >>
exceptLogger == << serverVars, proxyVars, chainVars, gzipVars, timeoutVars, callVars >>
exceptTimeout == << serverVars, proxyVars, chainVars, gzipVars, loggerVars, callVars >>
exceptCalls == << serverVars, proxyVars, chainVars, gzipVars, loggerVars, timeoutVars >>

vars == << serverVars, sideVars >>

startupVars == << onInit, starting, started, serving, radixTree, initCalls, phpSiteConfigs,
                  authSiteConfigs, authStates, dockerConfig, dockerStandardStates >>

\* m[k] = v on a Go map
MapPut(m, k, v) == [ x \in DOMAIN m \cup {k} |-> IF x = k THEN v ELSE m[x] ]

NoRequest == [ port |-> 0, host |-> << >>, path |-> << >>, auth |-> << >> ]

\* ------------------------------------------------------------ plugin init
\* BasePlugin.IsEnabled: the "enable" key is present and true
IsEnabled(rawMap) == "enable" \in DOMAIN rawMap /\ rawMap.enable = TRUE

\* PHPPlugin.OnInitForSite: stores the site's config, never fails
PHPOnInitForSite(conf, configs) ==
    IF "PHPPlugin" \notin DOMAIN conf.plugin_configs
    THEN MapPut(configs, conf.domain, [ Enable |-> FALSE ])
    ELSE MapPut(configs, conf.domain,
                [ Enable |-> IsEnabled(conf.plugin_configs["PHPPlugin"]) ])

\* the AuthPluginConfig that AuthPlugin.OnInitForSite parses from the block
AuthParse(rawMap) ==
    [ Enable |-> IsEnabled(rawMap),
      ProtectedPaths |->
          IF "protected_paths" \in DOMAIN rawMap THEN rawMap.protected_paths ELSE {},
      HasCredentials |-> "credentials" \in DOMAIN rawMap,
      Credentials |->
          IF "credentials" \in DOMAIN rawMap THEN rawMap.credentials ELSE {},
      SessionExpiration |->
          IF "session_expiration" \in DOMAIN rawMap
          THEN rawMap.session_expiration ELSE 0 ]

AuthDisabled ==
    [ Enable |-> FALSE, ProtectedPaths |-> {}, HasCredentials |-> FALSE,
      Credentials |-> {}, SessionExpiration |-> 0 ]

\* AuthPlugin.OnInitForSite reports an error for an out-of-range expiration
AuthInitFails(conf) ==
    /\ "AuthPlugin" \in DOMAIN conf.plugin_configs
    /\ LET c == AuthParse(conf.plugin_configs["AuthPlugin"])
       IN  c.SessionExpiration > MaxSessionExpiration \/ c.SessionExpiration < -1

\* AuthPlugin.OnInitForSite: the config map after the call
AuthOnInitForSite(conf, configs) ==
    IF "AuthPlugin" \notin DOMAIN conf.plugin_configs
    THEN MapPut(configs, conf.domain, AuthDisabled)
    ELSE IF AuthInitFails(conf) THEN configs
    ELSE MapPut(configs, conf.domain, AuthParse(conf.plugin_configs["AuthPlugin"]))

\* AuthPlugin.OnInitForSite: a fresh, empty session table for an enabled site
AuthInitStates(conf, states) ==
    IF /\ "AuthPlugin" \in DOMAIN conf.plugin_configs
       /\ ~AuthInitFails(conf)
       /\ IsEnabled(conf.plugin_configs["AuthPlugin"])
    THEN MapPut(states, conf.domain, FALSE)
    ELSE states

\* DockerBasePlugin.OnInitForSite: d.Config = cfg, whatever the site
DockerOnInitForSite(conf) ==
    IF "DockerBasePlugin" \in DOMAIN conf.plugin_configs
    THEN [ Enable |-> IsEnabled(conf.plugin_configs["DockerBasePlugin"]) ]
    ELSE [ Enable |-> FALSE ]

\* DockerBasePlugin.OnInitForSite fails when no container CLI is installed
DockerInitFails(conf) == ~DockerInPath

\* DockerStandardPlugin.OnInitForSite: stores the site's state, tries to
\* start the container whether or not the plugin is enabled, never fails
DockerStandardOnInitForSite(conf, states) ==
    MapPut(states, conf.domain,
           [ Enable |-> /\ "DockerStandardPlugin" \in DOMAIN conf.plugin_configs
                        /\ IsEnabled(conf.plugin_configs["DockerStandardPlugin"]),
             ProxyPaths |->
                 IF /\ "DockerStandardPlugin" \in DOMAIN conf.plugin_configs
                    /\ "proxy_paths" \in DOMAIN conf.plugin_configs["DockerStandardPlugin"]
                 THEN conf.plugin_configs["DockerStandardPlugin"].proxy_paths
                 ELSE {},
             containerID |-> IF ContainerAtInit THEN "cid" ELSE "" ])

\* PluginManager.InitPluginsForSite: OnInitForSite of every registered
\* plugin in registration order, stopping at the first error
InitPluginsForSiteFails(conf) == AuthInitFails(conf) \/ DockerInitFails(conf)

\* createHandler: url.Parse rejects the proxy target
InvalidProxyURL(conf) == conf.proxy_pass = "::bad"

\* plugins active for a site: the registered plugins named in plugin_configs
activePlugins ==
    [ s \in Sites |->
        SelectSeq(Registered, LAMBDA name : name \in DOMAIN Configs[s].plugin_configs) ]

ActivePlugins(s) == activePlugins[s]

\* ----------------------------------------------------------------- start-up
\* A site's handler is built when both InitPluginsForSite calls (the one of
\* startSingleServer / startVirtualHostServer and the one of createHandler)
\* and the proxy set-up succeed.
HandlerBuilt(conf) == ~InitPluginsForSiteFails(conf) /\ ~InvalidProxyURL(conf)

\* os.Stat(conf.RootDirectory) reports that the directory does not exist
RootMissing(conf) ==
    /\ conf.proxy_pass = ""
    /\ conf.root_directory # ""
    /\ conf.root_directory \notin Directories

\* startSingleServer returns before it initialises anything when the root
\* directory is missing; startVirtualHostServer logs the error and goes on
StartAborts(conf) == Len(PortGroup(conf.port)) = 1 /\ RootMissing(conf)

\* StartServers goes on to start the ports only if InitPlugins returned nil
\* (the variant that starts them whatever InitPlugins returned comes first)
LaunchedAnyway(state) == state.calls = 1
Launched(state) == state.calls = 1 /\ ~state.err

\* PHPPlugin and AuthPlugin keep siteConfigs in a plain map: OnInitForSite
\* writes it and HandleRequest reads it without any lock
SiteConfigsLocked == FALSE

\* the plugins whose HandleRequest looks the request's host up in siteConfigs
ReadsSiteConfigs == { "PHPPlugin", "AuthPlugin" }

\* the part of the state that initialising sites writes
PluginState ==
    [ calls |-> initCalls, php |-> phpSiteConfigs, auth |-> authSiteConfigs,
      states |-> authStates, docker |-> dockerConfig,
      dockerStandard |-> dockerStandardStates ]

\* InitPluginsForSite for one site, as often as start-up calls it: once by
\* the start function and, if that call succeeded and the proxy was set up,
\* once more by createHandler.
\* OnInitForSite runs in registration order and stops at the first error, so
\* a failing AuthPlugin leaves PHPPlugin's entry written and DockerBasePlugin
\* untouched.
InitSite(st, s) ==
    LET conf == Configs[s]
    IN  [ calls |-> [st.calls EXCEPT ![s] =
                        @ + (IF InitPluginsForSiteFails(conf) \/ InvalidProxyURL(conf)
                             THEN 1 ELSE 2)],
          php |-> PHPOnInitForSite(conf, st.php),
          auth |-> AuthOnInitForSite(conf, st.auth),
          states |-> AuthInitStates(conf, st.states),
          docker |-> IF AuthInitFails(conf) THEN st.docker
                     ELSE DockerOnInitForSite(conf),
          dockerStandard |->
              IF InitPluginsForSiteFails(conf) THEN st.dockerStandard
              ELSE DockerStandardOnInitForSite(conf, st.dockerStandard) ]

\* the loop of startVirtualHostServer over the first n sites of a group
RECURSIVE InitSites(_, _, _)
InitSites(st, group, n) ==
    IF n = 0 THEN st ELSE InitSite(InitSites(st, group, n - 1), group[n])

\* a loop that ends at the first site that failed
InsertSitesAbort(tree, group, n) ==
    LET ok == { i \in 1..n : \A j \in 1..i : HandlerBuilt(Configs[group[j]]) }
        at(x) == CHOOSE i \in ok : Configs[group[i]].domain = x
    IN  [ x \in DOMAIN tree \cup { Configs[group[i]].domain : i \in ok } |->
            IF \E i \in ok : Configs[group[i]].domain = x
            THEN group[at(x)] ELSE tree[x] ]

\* radixTree.Insert(conf.Domain, handler) for every site whose handler was
\* built; the loop "continue"s past a site that failed
RECURSIVE InsertSites(_, _, _)
InsertSites(tree, group, n) ==
    IF n = 0 THEN tree
    ELSE LET rest == InsertSites(tree, group, n - 1)
             conf == Configs[group[n]]
         IN  IF HandlerBuilt(conf) THEN MapPut(rest, conf.domain, group[n]) ELSE rest

StartPort(p, listens) ==
    LET group == PortGroup(p)
        st == IF StartAborts(Configs[group[1]]) THEN PluginState
              ELSE InitSites(PluginState, group, Len(group))
    IN  /\ p \in load.ports
        /\ Launched(onInit)
        /\ p \notin started
        /\ load.goroutines => p \in starting
        /\ starting' = starting \ {p}
        /\ started' = started \cup {p}
        /\ initCalls' = st.calls
        /\ phpSiteConfigs' = st.php
        /\ authSiteConfigs' = st.auth
        /\ authStates' = st.states
        /\ dockerConfig' = st.docker
        /\ dockerStandardStates' = st.dockerStandard
        /\ radixTree' = [radixTree EXCEPT ![p] =
                             IF StartAborts(Configs[group[1]]) THEN @
                             ELSE InsertSites(@, group, Len(group))]
        /\ serving' = IF listens THEN serving \cup {p} ELSE serving
        /\ UNCHANGED << load, onInit, sem, pc, rq, site, idx, resp, log, statusCode, logged >>
        /\ UNCHANGED sideVars

\* startSingleServer: the port of one site listens only if the site's plugins
\* initialised and its handler was created
startSingleServer(p) ==
    /\ Len(PortGroup(p)) = 1
    /\ StartPort(p, /\ ~StartAborts(Configs[PortGroup(p)[1]])
                    /\ HandlerBuilt(Configs[PortGroup(p)[1]]))

\* startVirtualHostServer: a shared port listens whatever became of its sites
startVirtualHostServer(p) ==
    /\ Len(PortGroup(p)) > 1
    /\ StartPort(p, TRUE)

\* StartServers up to the start of the ports: pluginManager.InitPlugins()
\* calls OnInit of every registered plugin; err: one of them fails, and
\* StartServers returns
StartServers(err) ==
    /\ onInit.calls = 0
    /\ onInit' = [ calls |-> 1, err |-> err ]
    /\ UNCHANGED << load, starting, started, serving, radixTree, initCalls,
                    phpSiteConfigs, authSiteConfigs, authStates, dockerConfig,
                    dockerStandardStates, sem, pc, rq, site, idx, resp, log,
                    statusCode, logged >>
    /\ UNCHANGED sideVars

\* go func(port, confs) {...}: StartServers starts the goroutine of a port,
\* which then runs the port's start function on its own
Go(p) ==
    /\ load.goroutines
    /\ p \in load.ports
    /\ Launched(onInit)
    /\ p \notin starting \cup started
    /\ starting' = starting \cup {p}
    /\ UNCHANGED << load, onInit, started, serving, radixTree, initCalls,
                    phpSiteConfigs, authSiteConfigs, authStates, dockerConfig,
                    dockerStandardStates, sem, pc, rq, site, idx, resp, log,
                    statusCode, logged >>
    /\ UNCHANGED sideVars

\* ---------------------------------------------------------- response status
\* The status the client receives is that of the first WriteHeader: net/http
\* ignores a later one as superfluous (status 0: nothing was written).
Sent(sent, status) == IF sent # 0 \/ status = 0 THEN sent ELSE status

\* responseWriter.WriteHeader of the logging wrapper: rw.statusCode = code on
\* every call (status 0: no call)
WriteHeader(code, status) == IF status = 0 THEN code ELSE status

\* logging is on unless enable_logging is set and false
LoggingEnabled(conf) == conf.enable_logging # "false"

\* the request's goroutine unwound by a panic of the inner handler
Panicked(entries) == \E i \in DOMAIN entries : entries[i] = << "panic", "" >>

\* LoggingMiddleware after next.ServeHTTP has returned: the entry of a site
\* with logging enabled carries rw.statusCode; this is part of the step in
\* which the request leaves the site's handler
LoggingMiddleware(r) ==
    logged' = [logged EXCEPT ![r] =
                  IF /\ pc'[r] = "done"
                     /\ site'[r] # 0
                     /\ ~Panicked(log'[r])
                  THEN IF LoggingEnabled(Configs[site'[r]]) THEN statusCode'[r] ELSE 0
                  ELSE @]

\* ------------------------------------------------------------- dispatching
\* radixTree.Get(host): the site stored under exactly this key, 0 if none
RadixGet(tree, host) == IF host \in DOMAIN tree THEN tree[host] ELSE 0

\* Faulty variant: an unknown host falls back to the first site of the port.
RouteToDefault(p, host) ==
    IF Len(PortGroup(p)) = 1 \/ RadixGet(radixTree[p], StripPort(host)) = 0
    THEN PortGroup(p)[1]
    ELSE RadixGet(radixTree[p], StripPort(host))

\* Faulty variant: one radix tree serves every port.
RouteAnyPort(p, host) ==
    IF Len(PortGroup(p)) = 1
    THEN PortGroup(p)[1]
    ELSE IF \E q \in Ports : RadixGet(radixTree[q], StripPort(host)) # 0
         THEN RadixGet(radixTree[CHOOSE q \in Ports :
                                    RadixGet(radixTree[q], StripPort(host)) # 0],
                       StripPort(host))
         ELSE 0

\* The handler the port's server was created with picks the site: the only
\* site of a single-site port, the radix tree entry of the stripped Host on a
\* shared port (0: http.NotFound).
Route(p, host) ==
    IF Len(PortGroup(p)) = 1
    THEN PortGroup(p)[1]
    ELSE RadixGet(radixTree[p], StripPort(host))

\* Faulty variant: the pipeline starts with HandleRequest, no BeforeRequest.
PipelineEntryNoBefore(s) == IF ActivePlugins(s) = << >> THEN "inner" ELSE "handle"

\* where a request enters the plugin middleware
PipelineEntry(s) == IF ActivePlugins(s) = << >> THEN "inner" ELSE "before"

\* first stage of the site's composed handler that the model tracks: the
\* concurrency middleware when max_concurrent_connections > 0 (createHandler)
SiteEntry(s) ==
    IF Configs[s].max_concurrent_connections > 0 THEN "admission" ELSE PipelineEntry(s)

\* where a request goes when the plugin middleware returns
PipelineExit(s) ==
    IF Configs[s].max_concurrent_connections > 0 THEN "release" ELSE "done"

\* A request arrives at a listening port and the port's handler dispatches it.
mainHandler(r) ==
    /\ r \in load.reqs
    /\ pc[r] = "idle"
    /\ \A q \in load.reqs : q < r => pc[q] # "idle"
    /\ \E in \in load.inputs :
          /\ in.port \in serving
          /\ rq' = [rq EXCEPT ![r] = in]
          /\ LET s == Route(in.port, in.host)
             IN  IF s = 0
                 THEN /\ resp' = [resp EXCEPT ![r] = StatusNotFound]
                      /\ pc' = [pc EXCEPT ![r] = "done"]
                      /\ site' = [site EXCEPT ![r] = 0]
                      /\ log' = [log EXCEPT ![r] = << <<"NotFound", "">> >>]
                      /\ UNCHANGED statusCode
                 ELSE /\ resp' = [resp EXCEPT ![r] = 0]
                      /\ pc' = [pc EXCEPT ![r] = SiteEntry(s)]
                      /\ site' = [site EXCEPT ![r] = s]
                      /\ log' = [log EXCEPT ![r] = << >>]
                      /\ statusCode' = [statusCode EXCEPT ![r] = StatusOK]
    /\ idx' = [idx EXCEPT ![r] = 1]
    /\ UNCHANGED << load, sem >>
    /\ UNCHANGED startupVars
    /\ UNCHANGED sideVars
    /\ LoggingMiddleware(r)

\* -------------------------------------------------------- admission control
\* Faulty variants of the semaphore operations, used to show that the
\* admission properties below depend on them: an off-by-one capacity test, a
\* send that always succeeds, and a release that leaves the token in place.
AcquiredOffByOne(tokens, capacity) == tokens <= capacity
AcquiredAlways(tokens, capacity) == TRUE
ReceivedNothing(tokens) == tokens

\* select { case sem <- struct{}{}: ... default: ... }: the send succeeds
\* exactly when the buffered channel is not full
Acquired(tokens, capacity) == tokens < capacity

\* Faulty variant: the sites of a port share the semaphore of the first one.
ConcurrencyMiddlewareShared(r) ==
    /\ pc[r] = "admission"
    /\ LET s == site[r]
           k == PortGroup(Configs[s].port)[1]
       IN  IF Acquired(sem[k], Configs[k].max_concurrent_connections)
           THEN /\ sem' = [sem EXCEPT ![k] = @ + 1]
                /\ pc' = [pc EXCEPT ![r] = PipelineEntry(s)]
                /\ UNCHANGED << resp, log, statusCode >>
           ELSE /\ resp' = [resp EXCEPT ![r] = StatusServiceUnavailable]
                /\ statusCode' = [statusCode EXCEPT ![r] =
                                      WriteHeader(@, StatusServiceUnavailable)]
                /\ pc' = [pc EXCEPT ![r] = "done"]
                /\ log' = [log EXCEPT ![r] = Append(@, <<"Reject", "">>)]
                /\ UNCHANGED sem
    /\ UNCHANGED << load, rq, site, idx >>
    /\ UNCHANGED startupVars
    /\ UNCHANGED sideVars
    /\ LoggingMiddleware(r)

ConcurrencyMiddleware(r) ==
    /\ pc[r] = "admission"
    /\ LET s == site[r]
       IN  IF Acquired(sem[s], Configs[s].max_concurrent_connections)
           THEN /\ sem' = [sem EXCEPT ![s] = @ + 1]
                /\ pc' = [pc EXCEPT ![r] = PipelineEntry(s)]
                /\ UNCHANGED << resp, log, statusCode >>
           ELSE /\ resp' = [resp EXCEPT ![r] = StatusServiceUnavailable]
                /\ statusCode' = [statusCode EXCEPT ![r] =
                                      WriteHeader(@, StatusServiceUnavailable)]
                /\ pc' = [pc EXCEPT ![r] = "done"]
                /\ log' = [log EXCEPT ![r] = Append(@, <<"Reject", "">>)]
                /\ UNCHANGED sem
    /\ UNCHANGED << load, rq, site, idx >>
    /\ UNCHANGED startupVars
    /\ UNCHANGED sideVars
    /\ LoggingMiddleware(r)

\* <-sem takes one token out of the channel
Received(tokens) == tokens - 1

\* defer func() { <-sem }(): the token goes back when the inner handler has
\* returned or panicked
ReleaseToken(r) ==
    /\ pc[r] = "release"
    /\ sem' = [sem EXCEPT ![site[r]] = Received(@)]
    /\ pc' = [pc EXCEPT ![r] = "done"]
    /\ UNCHANGED << load, rq, site, idx, resp, log, statusCode >>
    /\ UNCHANGED startupVars
    /\ UNCHANGED sideVars
    /\ LoggingMiddleware(r)

\* ------------------------------------------------------------ plugin hooks
\* What one HandleRequest call does: handled (its return value), status (the
\* status it wrote, 0 if it wrote nothing), session (it created a session).
\* container (it found or started the site's container).
Declined == [ handled |-> FALSE, status |-> 0, session |-> FALSE, container |-> FALSE ]
Handled(status) ==
    [ handled |-> TRUE, status |-> status, session |-> FALSE, container |-> FALSE ]

\* PHPPlugin.HandleRequest; scriptExists: os.Stat finds the script file
PHPHandleRequest(req, scriptExists) ==
    LET host == StripPort(req.host)
    IN  IF host \notin DOMAIN phpSiteConfigs \/ ~phpSiteConfigs[host].Enable
        THEN Declined
        ELSE IF ~HasSuffix(req.path, << ".php" >>) THEN Declined
        ELSE IF ~scriptExists THEN Handled(StatusNotFound)
        ELSE Handled(StatusOK)

\* parseBasicAuth succeeds on a header that decodes to user:password
ParsedBasicAuth(auth) == Len(auth) = 2

\* AuthPlugin.HandleRequest for the one client address of the model
AuthHandleRequest(req) ==
    LET host == StripPort(req.host)
    IN  IF host \notin DOMAIN authSiteConfigs \/ ~authSiteConfigs[host].Enable
        THEN Declined
        ELSE IF ~authSiteConfigs[host].HasCredentials THEN Declined
        ELSE IF ~\E path \in authSiteConfigs[host].ProtectedPaths :
                    HasPrefix(req.path, path)
        THEN Declined
        ELSE IF host \notin DOMAIN authStates THEN Declined
        ELSE IF authStates[host] THEN Declined
        ELSE IF req.auth = << >> THEN Handled(StatusUnauthorized)
        ELSE IF ~ParsedBasicAuth(req.auth) THEN Handled(StatusUnauthorized)
        ELSE IF req.auth \notin authSiteConfigs[host].Credentials
        THEN Handled(StatusUnauthorized)
        ELSE [ handled |-> FALSE, status |-> 0, session |-> TRUE, container |-> FALSE ]

\* DockerBasePlugin.HandleRequest; listed: ListContainers returned no error
DockerHandleRequest(req, listed) ==
    IF ~HasPrefix(req.path, << "/", "docker", "/" >>) THEN Declined
    ELSE IF ~listed THEN Handled(StatusInternalServerError)
    ELSE Handled(StatusOK)

\* DockerStandardPlugin.HandleRequest; starts: ensureContainer succeeds.
\* Without a container and unable to start one it writes 500 with http.Error
\* and returns false; with a container it proxies the paths under one of the
\* configured prefixes and returns true.
DockerStandardHandleRequest(req, starts) ==
    LET host == StripPort(req.host)
    IN  IF \/ host \notin DOMAIN dockerStandardStates
           \/ ~dockerStandardStates[host].Enable
        THEN Declined
        ELSE IF dockerStandardStates[host].containerID = "" /\ ~starts
        THEN [ handled |-> FALSE, status |-> StatusInternalServerError,
               session |-> FALSE, container |-> FALSE ]
        ELSE [ handled |-> \E prefix \in dockerStandardStates[host].ProxyPaths :
                              HasPrefix(req.path, prefix),
               status |-> IF \E prefix \in dockerStandardStates[host].ProxyPaths :
                                HasPrefix(req.path, prefix)
                          THEN StatusOK ELSE 0,
               session |-> FALSE,
               container |-> dockerStandardStates[host].containerID = "" ]

\* the HandleRequest of the plugin registered under this name
PluginHandleRequest(name, req, env) ==
    CASE name = "PHPPlugin" -> PHPHandleRequest(req, env)
      [] name = "AuthPlugin" -> AuthHandleRequest(req)
      [] name = "DockerBasePlugin" -> DockerHandleRequest(req, env)
      [] name = "DockerStandardPlugin" -> DockerStandardHandleRequest(req, env)

\* --------------------------------------------------------- plugin pipeline
\* the hook of every active plugin, in registration order, as log entries
HookCalls(hook, active) == [ i \in 1..Len(active) |-> << hook, active[i] >> ]

\* PluginMiddleware, phase 1: BeforeRequest of every active plugin, in
\* registration order (no plugin of the repository does anything in it, so
\* the loop is one step).
BeforeRequest(r) ==
    /\ pc[r] = "before"
    /\ log' = [log EXCEPT ![r] = @ \o HookCalls("BeforeRequest", ActivePlugins(site[r]))]
    /\ idx' = [idx EXCEPT ![r] = 1]
    /\ pc' = [pc EXCEPT ![r] = "handle"]
    /\ UNCHANGED << load, sem, rq, site, resp, statusCode >>
    /\ UNCHANGED startupVars
    /\ UNCHANGED sideVars
    /\ LoggingMiddleware(r)

\* Faulty variants: a true from HandleRequest is ignored; a short-circuited
\* request leaves the pipeline without the AfterRequest phase.
ShortCircuitNever(handled) == FALSE
AfterShortCircuitNone(s) == PipelineExit(s)

\* the pipeline stops asking plugins once one has returned true
ShortCircuit(handled) == handled

\* what follows a HandleRequest that returned true: the AfterRequest phase
AfterShortCircuit(s) == "after"

\* PluginMiddleware, phase 2: HandleRequest of the active plugins in
\* registration order until one returns true.
HandleRequest(r) ==
    /\ pc[r] = "handle"
    /\ \E env \in BOOLEAN :
         LET active == ActivePlugins(site[r])
             name == active[idx[r]]
             res == PluginHandleRequest(name, rq[r], env)
             host == StripPort(rq[r].host)
         IN  /\ log' = [log EXCEPT ![r] =
                           Append(@, <<IF res.handled THEN "HandleRequest:true"
                                       ELSE "HandleRequest:false", name>>)]
             /\ resp' = [resp EXCEPT ![r] = Sent(@, res.status)]
             /\ statusCode' = [statusCode EXCEPT ![r] = WriteHeader(@, res.status)]
             /\ authStates' =
                    IF res.session THEN [authStates EXCEPT ![host] = TRUE] ELSE authStates
             /\ dockerStandardStates' =
                    IF res.container
                    THEN [dockerStandardStates EXCEPT ![host].containerID = "cid"]
                    ELSE dockerStandardStates
             /\ IF ShortCircuit(res.handled)
                THEN /\ idx' = [idx EXCEPT ![r] = 1]
                     /\ pc' = [pc EXCEPT ![r] = AfterShortCircuit(site[r])]
                ELSE IF idx[r] < Len(active)
                THEN /\ idx' = [idx EXCEPT ![r] = @ + 1]
                     /\ pc' = pc
                ELSE /\ idx' = [idx EXCEPT ![r] = 1]
                     /\ pc' = [pc EXCEPT ![r] = "inner"]
    /\ UNCHANGED << load, onInit, starting, started, serving, radixTree, initCalls,
                    phpSiteConfigs, authSiteConfigs, dockerConfig, sem, rq, site >>
    /\ UNCHANGED sideVars
    /\ LoggingMiddleware(r)

\* The site's own handler (static files or reverse proxy) serves the request;
\* it may panic, and then the deferred release is all that still runs.
InnerHandler(r) ==
    /\ pc[r] = "inner"
    /\ \E outcome \in {StatusOK, 0} :
         LET s == site[r]
         IN  IF outcome = 0
             THEN /\ log' = [log EXCEPT ![r] = Append(@, <<"panic", "">>)]
                  /\ pc' = [pc EXCEPT ![r] = PipelineExit(s)]
                  /\ UNCHANGED << resp, statusCode >>
             ELSE /\ log' = [log EXCEPT ![r] = Append(@, <<"ServeHTTP", "">>)]
                  /\ resp' = [resp EXCEPT ![r] = Sent(@, outcome)]
                  /\ statusCode' = [statusCode EXCEPT ![r] = WriteHeader(@, outcome)]
                  /\ pc' = [pc EXCEPT ![r] =
                               IF ActivePlugins(s) = << >> THEN PipelineExit(s)
                               ELSE "after"]
    /\ idx' = [idx EXCEPT ![r] = 1]
    /\ UNCHANGED << load, sem, rq, site >>
    /\ UNCHANGED startupVars
    /\ UNCHANGED sideVars
    /\ LoggingMiddleware(r)

\* PluginMiddleware, phase 3: AfterRequest of every active plugin, in
\* registration order (again no plugin does anything in it).
AfterRequest(r) ==
    /\ pc[r] = "after"
    /\ log' = [log EXCEPT ![r] = @ \o HookCalls("AfterRequest", ActivePlugins(site[r]))]
    /\ idx' = [idx EXCEPT ![r] = 1]
    /\ pc' = [pc EXCEPT ![r] = PipelineExit(site[r])]
    /\ UNCHANGED << load, sem, rq, site, resp, statusCode >>
    /\ UNCHANGED startupVars
    /\ UNCHANGED sideVars
    /\ LoggingMiddleware(r)

\* ------------------------------------------------------ reverse proxy pool
\* url.Parse rejects the target (a bad percent escape)
ParseFails(target) == \E i \in DOMAIN target : target[i] = "%zz"

\* fmt.Sprintf("%s|%s|%d", conf.ProxyPass, conf.FlushInterval, conf.BufferSizeKB)
\* on strings written as token sequences
ProxyKey(conf) ==
    conf.ProxyPass \o << "|" >> \o conf.FlushInterval \o << "|" >>
        \o << ToString(conf.BufferSizeKB) >>

\* Faulty variant: no look-up, every call makes and stores a new instance.
getSharedReverseProxyNoLookup(conf) ==
    /\ Cardinality(DOMAIN siteProxy) < MaxProxyCalls
    /\ IF ParseFails(conf.ProxyPass)
       THEN UNCHANGED << sharedProxyMap, proxies, siteProxy >>
       ELSE /\ proxies' = Append(proxies, conf)
            /\ sharedProxyMap' = MapPut(sharedProxyMap, ProxyKey(conf), Len(proxies) + 1)
            /\ siteProxy' = MapPut(siteProxy, conf, Len(proxies) + 1)
    /\ UNCHANGED exceptProxy

\* getSharedReverseProxy, under sharedProxyMapMu: the instance stored under
\* the key if there is one, else a new instance for this configuration, stored
\* under the key; an error and no instance if the target does not parse.
getSharedReverseProxy(conf) ==
    /\ Cardinality(DOMAIN siteProxy) < MaxProxyCalls
    /\ LET key == ProxyKey(conf)
       IN  IF key \in DOMAIN sharedProxyMap
           THEN /\ siteProxy' = MapPut(siteProxy, conf, sharedProxyMap[key])
                /\ UNCHANGED << sharedProxyMap, proxies >>
           ELSE IF ParseFails(conf.ProxyPass)
           THEN UNCHANGED << sharedProxyMap, proxies, siteProxy >>
           ELSE /\ proxies' = Append(proxies, conf)
                /\ sharedProxyMap' = MapPut(sharedProxyMap, key, Len(proxies) + 1)
                /\ siteProxy' = MapPut(siteProxy, conf, Len(proxies) + 1)
    /\ UNCHANGED exceptProxy

\* -------------------------------------------------------- middleware chains
\* the base chain that StartServers creates is the first manager on the heap
mwManager == 1

\* NewMiddlewareManager, and Use(BenchmarkMiddleware) if benchmarking is on
BaseChain(bench) == IF bench THEN << "BenchmarkMiddleware" >> ELSE << >>

\* Faulty variant: the copy is the manager it was copied from.
CopyShared(heap, id) == id

\* Copy: a new manager, independent of the one copied, with the same wrappers
\* (it is put on the heap by the step that calls Copy)
Copy(heap, id) == Len(heap) + 1

\* the wrappers createHandler registers for a site, in order of registration
SiteWrappers(conf) ==
    (IF conf.max_concurrent_connections > 0 THEN << "ConcurrencyMiddleware" >> ELSE << >>)
    \o << "GzipMiddleware" >>
    \o (IF LoggingEnabled(conf) THEN << "LoggingMiddleware" >> ELSE << >>)

\* Apply: the wrappers around the handler, outermost first; the wrapper
\* registered last is the outermost
Apply(chain) == [ i \in 1..Len(chain) |-> chain[Len(chain) + 1 - i] ]

\* the sites of a port are taken one after the other, the ports concurrently
Turn(s) ==
    \A t \in Sites :
        (Configs[t].port = Configs[s].port /\ t < s) => chainPc[t] \in {"built", "skipped"}

\* InitPluginsForSite, then mwManagerCopy := mwManager.Copy()
CopyBase(s) ==
    /\ chainPc[s] = "start"
    /\ Configs[s].port \in load.ports
    /\ Turn(s)
    /\ IF StartAborts(Configs[s]) \/ InitPluginsForSiteFails(Configs[s])
       THEN /\ chainPc' = [chainPc EXCEPT ![s] = "skipped"]
            /\ UNCHANGED << chains, mwManagerCopy >>
       ELSE /\ chainPc' = [chainPc EXCEPT ![s] = "usePlugin"]
            /\ chains' = Append(chains, chains[mwManager])
            /\ mwManagerCopy' = [mwManagerCopy EXCEPT ![s] = Copy(chains, mwManager)]
    /\ UNCHANGED << enableBench, siteMwManager, siteHandler, used >>
    /\ UNCHANGED exceptChains

\* mwManagerCopy.Use(plugin.PluginMiddleware(pm))
UsePluginMiddleware(s) ==
    /\ chainPc[s] = "usePlugin"
    /\ chains' = [chains EXCEPT ![mwManagerCopy[s]] = Append(@, "PluginMiddleware")]
    /\ chainPc' = [chainPc EXCEPT ![s] = "createHandler"]
    /\ UNCHANGED << enableBench, mwManagerCopy, siteMwManager, siteHandler, used >>
    /\ UNCHANGED exceptChains

\* createHandler up to siteMwManager := globalMwManager.Copy(); it returns
\* an error before that if the proxy cannot be set up
CopySite(s) ==
    /\ chainPc[s] = "createHandler"
    /\ IF InvalidProxyURL(Configs[s])
       THEN /\ chainPc' = [chainPc EXCEPT ![s] = "skipped"]
            /\ UNCHANGED << chains, siteMwManager >>
       ELSE /\ chainPc' = [chainPc EXCEPT ![s] = "use"]
            /\ chains' = Append(chains, chains[mwManagerCopy[s]])
            /\ siteMwManager' = [siteMwManager EXCEPT ![s] = Copy(chains, mwManagerCopy[s])]
    /\ UNCHANGED << enableBench, mwManagerCopy, siteHandler, used >>
    /\ UNCHANGED exceptChains

\* siteMwManager.Use(...): Use appends the wrapper to this chain
Use(s) ==
    /\ chainPc[s] = "use"
    /\ LET wrappers == SiteWrappers(Configs[s])
       IN  /\ chains' = [chains EXCEPT ![siteMwManager[s]] =
                             Append(@, wrappers[used[s] + 1])]
           /\ used' = [used EXCEPT ![s] = @ + 1]
           /\ chainPc' = [chainPc EXCEPT ![s] =
                              IF used[s] + 1 = Len(wrappers) THEN "apply" ELSE "use"]
    /\ UNCHANGED << enableBench, mwManagerCopy, siteMwManager, siteHandler >>
    /\ UNCHANGED exceptChains

\* handler = siteMwManager.Apply(handler)
ApplyChain(s) ==
    /\ chainPc[s] = "apply"
    /\ siteHandler' = [siteHandler EXCEPT ![s] = Apply(chains[siteMwManager[s]])]
    /\ chainPc' = [chainPc EXCEPT ![s] = "built"]
    /\ UNCHANGED << enableBench, chains, mwManagerCopy, siteMwManager, used >>
    /\ UNCHANGED exceptChains

\* -------------------------------------------------------- compression stage
\* compressibleTypes
compressibleTypes ==
    { "text/html", "text/css", "text/plain", "text/javascript",
      "application/javascript", "application/x-javascript", "application/json",
      "application/xml", "text/xml", "image/svg+xml" }

\* strings.Index(ct, ";"), 0 standing for Go's -1
IndexSemicolon(ct) ==
    IF \E i \in 1..Len(ct) : ct[i] = ";"
    THEN CHOOSE i \in 1..Len(ct) : ct[i] = ";" /\ \A j \in 1..(i-1) : ct[j] # ";"
    ELSE 0

\* Faulty variant: every content type is taken for compressible.
CompressibleAll(ct) == TRUE

\* compressibleTypes[ct] after ct = ct[:idx]: the header value up to its
\* first semicolon is a key of the map
Compressible(ct) ==
    LET primary == IF IndexSemicolon(ct) # 0
                   THEN SubSeq(ct, 1, IndexSemicolon(ct) - 1) ELSE ct
    IN  Len(primary) = 1 /\ primary[1] \in compressibleTypes

\* http.DetectContentType on the first bytes written
DetectContentType(b) ==
    IF \A i \in DOMAIN b : b[i] = "t"
    THEN << "text/plain", ";", " charset=utf-8" >>
    ELSE << "application/octet-stream" >>

\* Faulty variant: a Content-Encoding already set is not looked at.
PreEncodedNever(hdr) == FALSE

\* w.Header().Get("Content-Encoding") != ""
PreEncoded(hdr) == hdr.ContentEncoding # ""

\* checkCompression: the decision, taken once, from the headers as they are
ShouldCompress(hdr) == ~PreEncoded(hdr) /\ Compressible(hdr.ContentType)

\* the headers smartGzipWriter.WriteHeader sends when it decides
DecidedHeader(hdr) ==
    IF ShouldCompress(hdr)
    THEN [hdr EXCEPT !.ContentEncoding = "gzip", !.ContentLength = FALSE,
                     !.Vary = "Accept-Encoding"]
    ELSE hdr

\* bytes as they travel: << "raw", bytes >> unencoded, << "gz", bytes >> a
\* gzip block holding the bytes, << "eof", << >> >> the gzip trailer
Raw(b) == << "raw", b >>

\* Faulty variant: Close gives the writer back without flushing it.
GzipCloseNoFlush(buffer) == << >>

\* gzip.Writer.Close: what is held back goes out, followed by the trailer
GzipClose(buffer) == << << "gz", buffer >>, << "eof", << >> >> >>

\* GzipMiddleware up to next.ServeHTTP: the request is wrapped in a
\* smartGzipWriter unless it does not accept gzip or is a WebSocket handshake
GzipMiddleware ==
    /\ gzPc = "start"
    /\ gw' = IF gzReq.AcceptGzip /\ ~gzReq.WebSocketKey
             THEN [ wrapped |-> TRUE, checked |-> FALSE, shouldCompress |-> FALSE ]
             ELSE [ wrapped |-> FALSE, checked |-> FALSE, shouldCompress |-> FALSE ]
    /\ gzPc' = "headers"
    /\ UNCHANGED << gzReq, header, gzipWriter, gzipWriterPool, wire, written, decision >>
    /\ UNCHANGED exceptGzip

\* the inner handler sets its response headers (the static responder sets
\* Content-Encoding and a Content-Type from the extension for a sidecar)
SetHeaders(ct, ce, cl) ==
    /\ gzPc = "headers"
    /\ header' = [ ContentType |-> ct, ContentEncoding |-> ce, ContentLength |-> cl,
                   Vary |-> "" ]
    /\ gzPc' = "body"
    /\ UNCHANGED << gzReq, gw, gzipWriter, gzipWriterPool, wire, written, decision >>
    /\ UNCHANGED exceptGzip

\* smartGzipWriter.WriteHeader, or the server's own WriteHeader for a request
\* that was not wrapped; b are the first bytes when Write makes the call
FirstWrite(status, b) ==
    LET sniffed == IF b # << >> /\ header.ContentType = << >>
                   THEN [header EXCEPT !.ContentType = DetectContentType(b)]
                   ELSE header
        hdr == IF gw.wrapped THEN sniffed ELSE header
        compress == gw.wrapped /\ ShouldCompress(hdr)
    IN  /\ decision' = [ made |-> TRUE, ContentType |-> hdr.ContentType,
                         ContentEncoding |-> hdr.ContentEncoding ]
        /\ gw' = IF gw.wrapped
                 THEN [gw EXCEPT !.checked = TRUE, !.shouldCompress = compress]
                 ELSE gw
        /\ header' = IF gw.wrapped THEN DecidedHeader(hdr) ELSE hdr
        /\ wire' = [ status |-> status,
                     body |-> IF b # << >> /\ ~compress
                              THEN Append(wire.body, Raw(b)) ELSE wire.body ]
        /\ gzipWriter' = IF b # << >> /\ compress THEN gzipWriter \o b ELSE gzipWriter
        /\ gzipWriterPool' = IF compress
                             THEN [gzipWriterPool EXCEPT !.gets = @ + 1]
                             ELSE gzipWriterPool

\* the inner handler calls WriteHeader: the first call decides, a later one
\* goes straight to the wrapped writer, which has sent its status already
GzipWriteHeader(status) ==
    /\ gzPc = "body"
    /\ IF decision.made
       THEN UNCHANGED << decision, gw, header, wire, gzipWriter, gzipWriterPool >>
       ELSE FirstWrite(status, << >>)
    /\ UNCHANGED << gzReq, gzPc, written >>
    /\ UNCHANGED exceptGzip

\* Faulty variant: every Write looks at the headers again to choose its path.
GzipWriteRedecide(b) ==
    /\ gzPc = "body"
    /\ Len(written) < MaxWrites
    /\ written' = Append(written, b)
    /\ IF decision.made
       THEN /\ UNCHANGED << decision, gw, header, gzipWriterPool >>
            /\ IF gw.wrapped /\ ShouldCompress(header)
               THEN /\ gzipWriter' = gzipWriter \o b
                    /\ UNCHANGED wire
               ELSE /\ wire' = [wire EXCEPT !.body = Append(@, Raw(b))]
                    /\ UNCHANGED gzipWriter
       ELSE FirstWrite(StatusOK, b)
    /\ UNCHANGED << gzReq, gzPc >>
    /\ UNCHANGED exceptGzip

\* smartGzipWriter.Write: decides first if nothing was decided, then hands
\* the bytes to the gzip writer or to the wrapped writer
GzipWrite(b) ==
    /\ gzPc = "body"
    /\ Len(written) < MaxWrites
    /\ written' = Append(written, b)
    /\ IF decision.made
       THEN /\ UNCHANGED << decision, gw, header, gzipWriterPool >>
            /\ IF gw.shouldCompress
               THEN /\ gzipWriter' = gzipWriter \o b
                    /\ UNCHANGED wire
               ELSE /\ wire' = [wire EXCEPT !.body = Append(@, Raw(b))]
                    /\ UNCHANGED gzipWriter
       ELSE FirstWrite(StatusOK, b)
    /\ UNCHANGED << gzReq, gzPc >>
    /\ UNCHANGED exceptGzip

\* smartGzipWriter.Close: a writer that was taken is closed and put back
gwClose ==
    IF gw.wrapped /\ gw.shouldCompress
    THEN /\ wire' = [wire EXCEPT !.body = @ \o GzipClose(gzipWriter)]
         /\ gzipWriter' = << >>
         /\ gzipWriterPool' = [gzipWriterPool EXCEPT !.closes = @ + 1, !.puts = @ + 1]
    ELSE UNCHANGED << wire, gzipWriter, gzipWriterPool >>

\* the inner handler returns and the deferred smartGzipWriter.Close runs
Close ==
    /\ gzPc = "body"
    /\ gzPc' = "done"
    /\ gwClose
    /\ UNCHANGED << gzReq, header, gw, written, decision >>
    /\ UNCHANGED exceptGzip

\* Faulty variant: Close is called after next.ServeHTTP, not deferred.
PanicNoClose ==
    /\ gzPc = "body"
    /\ gzPc' = "panic"
    /\ UNCHANGED << gzReq, header, gw, written, decision, wire, gzipWriter,
                    gzipWriterPool >>
    /\ UNCHANGED exceptGzip

\* the inner handler panics: the deferred smartGzipWriter.Close runs while
\* the panic unwinds GzipMiddleware
Panic ==
    /\ gzPc = "body"
    /\ gzPc' = "panic"
    /\ gwClose
    /\ UNCHANGED << gzReq, header, gw, written, decision >>
    /\ UNCHANGED exceptGzip

\* the inner handler changes the header map after the status went out
SetHeadersLate(ct, ce) ==
    /\ gzPc = "body"
    /\ decision.made
    /\ header' = [header EXCEPT !.ContentType = ct, !.ContentEncoding = ce]
    /\ UNCHANGED << gzReq, gzPc, gw, gzipWriter, gzipWriterPool, wire, written,
                    decision >>
    /\ UNCHANGED exceptGzip

\* ------------------------------------------------------ asynchronous logger
\* the goroutines whose logging middleware has a request to log
Producers == 1..MaxProducers

\* a LogEntry as the pool's New makes it and as PutEntry leaves it
EmptyEntry == [ Logger |-> "nil", Message |-> "", Identifier |-> "", Fields |-> {} ]

\* the LogEntry as LoggingMiddleware fills it before it calls Log
FilledEntry ==
    [ Logger |-> "l", Message |-> "Handled request", Identifier |-> "identifier",
      Fields |-> { "method", "url", "remote_addr", "status_code", "duration_sec",
                   "domain" } ]

\* InitAsyncLogger: an empty channel, an empty pool, the worker waiting
InitAsyncLogger ==
    /\ logChan = << >>
    /\ logEntryPool = {}
    /\ logEntries = << >>
    /\ logPc = [ p \in Producers |-> "idle" ]
    /\ entry = [ p \in Producers |-> 0 ]
    /\ workerEntry = 0
    /\ logCalls = 0
    /\ drops = 0
    /\ logClosed = FALSE

\* GetEntry: logEntryPool.Get(), an entry of the pool or, when the pool has
\* none at hand for this goroutine, a new one
GetEntry(p) ==
    /\ logPc[p] = "idle"
    /\ logCalls + Cardinality({ q \in Producers : logPc[q] # "idle" }) < MaxLogCalls
    /\ \/ \E e \in logEntryPool :
              /\ entry' = [entry EXCEPT ![p] = e]
              /\ logEntryPool' = logEntryPool \ {e}
              /\ UNCHANGED logEntries
       \/ /\ logEntries' = Append(logEntries, EmptyEntry)
          /\ entry' = [entry EXCEPT ![p] = Len(logEntries) + 1]
          /\ UNCHANGED logEntryPool
    /\ logPc' = [logPc EXCEPT ![p] = "fill"]
    /\ UNCHANGED << logChan, workerEntry, logCalls, drops, logClosed >>
    /\ UNCHANGED exceptLogger

\* LoggingMiddleware sets the fields of the entry it got
FillEntry(p) ==
    /\ logPc[p] = "fill"
    /\ logEntries' = [logEntries EXCEPT ![entry[p]] = FilledEntry]
    /\ logPc' = [logPc EXCEPT ![p] = "log"]
    /\ UNCHANGED << logChan, logEntryPool, entry, workerEntry, logCalls, drops, logClosed >>
    /\ UNCHANGED exceptLogger

\* a PutEntry that puts the entry back as it is
PutEntryAsIs(e) ==
    /\ UNCHANGED logEntries
    /\ logEntryPool' = logEntryPool \cup {e}

\* PutEntry: the entry is reset and put back into the pool
PutEntry(e) ==
    /\ logEntries' = [logEntries EXCEPT ![e] = EmptyEntry]
    /\ logEntryPool' = logEntryPool \cup {e}

\* a send that waits for a place in the channel
LogBlocking(p) ==
    /\ logPc[p] = "log"
    /\ Len(logChan) < LogBufferSize
    /\ logChan' = Append(logChan, entry[p])
    /\ entry' = [entry EXCEPT ![p] = 0]
    /\ logPc' = [logPc EXCEPT ![p] = "idle"]
    /\ logCalls' = logCalls + 1
    /\ UNCHANGED << logEntries, logEntryPool, drops, workerEntry, logClosed >>
    /\ UNCHANGED exceptLogger

\* a default branch that drops the record and forgets the entry
LogNoPut(p) ==
    /\ logPc[p] = "log"
    /\ IF Len(logChan) < LogBufferSize
       THEN /\ logChan' = Append(logChan, entry[p])
            /\ UNCHANGED drops
       ELSE /\ drops' = drops + 1
            /\ UNCHANGED logChan
    /\ entry' = [entry EXCEPT ![p] = 0]
    /\ logPc' = [logPc EXCEPT ![p] = "idle"]
    /\ logCalls' = logCalls + 1
    /\ UNCHANGED << logEntries, logEntryPool, workerEntry, logClosed >>
    /\ UNCHANGED exceptLogger

\* Log: select { case al.logChan <- entry: default: al.PutEntry(entry) }
\* On a closed channel the send case of the select is chosen and panics
\* ("send on closed channel"): the goroutine of the request unwinds with the
\* entry still in its hands.
Log(p) ==
    /\ logPc[p] = "log"
    /\ IF logClosed
       THEN /\ logPc' = [logPc EXCEPT ![p] = "panic"]
            /\ UNCHANGED << logChan, logEntries, logEntryPool, drops, entry >>
       ELSE /\ IF Len(logChan) < LogBufferSize
               THEN /\ logChan' = Append(logChan, entry[p])
                    /\ UNCHANGED << logEntries, logEntryPool, drops >>
               ELSE /\ PutEntry(entry[p])
                    /\ drops' = drops + 1
                    /\ UNCHANGED logChan
            /\ entry' = [entry EXCEPT ![p] = 0]
            /\ logPc' = [logPc EXCEPT ![p] = "idle"]
    /\ logCalls' = logCalls + 1
    /\ UNCHANGED << workerEntry, logClosed >>
    /\ UNCHANGED exceptLogger

\* worker: for entry := range al.logChan
workerReceive ==
    /\ workerEntry = 0
    /\ logChan # << >>
    /\ workerEntry' = Head(logChan)
    /\ logChan' = Tail(logChan)
    /\ UNCHANGED << logEntryPool, logEntries, logPc, entry, logCalls, drops, logClosed >>
    /\ UNCHANGED exceptLogger

\* worker: the entry is written to the site's logger, then al.PutEntry(entry)
workerPutEntry ==
    /\ workerEntry # 0
    /\ PutEntry(workerEntry)
    /\ workerEntry' = 0
    /\ UNCHANGED << logChan, logPc, entry, logCalls, drops, logClosed >>
    /\ UNCHANGED exceptLogger

\* Shutdown: close(al.logChan); the worker's range loop ends once the
\* channel is closed and empty
Shutdown ==
    /\ ~logClosed
    /\ logClosed' = TRUE
    /\ UNCHANGED << logChan, logEntryPool, logEntries, logPc, entry, workerEntry,
                    logCalls, drops >>
    /\ UNCHANGED exceptLogger

\* ---------------------------------------------------------- request timeout
\* createHandler: reqTimeout := conf.RequestTimeout, 0 becoming 60
reqTimeout(T) == IF T = 0 THEN DefaultRequestTimeout ELSE T

\* createHTTPServer: the server's WriteTimeout in seconds, 0 for none
writeTimeout(T) == IF T >= 0 THEN T ELSE 0

\* TimeoutMiddleware (http.TimeoutHandler): 503 in place of the answer of a
\* handler that has run for longer than the timeout
TimeoutMiddleware(timeout, delay, status) ==
    IF delay > timeout THEN StatusServiceUnavailable ELSE status

\* the site whose handler serves the timed request
TimedSite == 1

\* the status written through the wrappers createHandler has registered
Answer(wrappers, T, delay) ==
    IF \E i \in DOMAIN wrappers : wrappers[i] = "TimeoutMiddleware"
    THEN TimeoutMiddleware(reqTimeout(T), delay, StatusOK)
    ELSE StatusOK

\* what a client of the port can receive: once the server's write deadline
\* has passed the answer cannot be written and the connection is closed (0)
OnWire(T, delay, status) ==
    IF writeTimeout(T) = 0 \/ delay < writeTimeout(T) THEN { status }
    ELSE IF delay = writeTimeout(T) THEN { status, 0 }
    ELSE { 0 }

\* one second passes while the inner handler is at work
Tick ==
    /\ tmPc = "handler"
    /\ tmClock < tmDelay
    /\ tmClock' = tmClock + 1
    /\ UNCHANGED << tmConf, tmDelay, tmPc, tmStatus, tmWire >>
    /\ UNCHANGED exceptTimeout

\* handler.ServeHTTP(w, req) returns: the inner handler has written its status
ServeHTTP ==
    /\ tmPc = "handler"
    /\ tmClock = tmDelay
    /\ tmStatus' = Answer(Apply(SiteWrappers(Configs[TimedSite])), tmConf, tmDelay)
    /\ tmWire' \in OnWire(tmConf, tmDelay, tmStatus')
    /\ tmPc' = "done"
    /\ UNCHANGED << tmConf, tmDelay, tmClock >>
    /\ UNCHANGED exceptTimeout

\* ------------------------------------------------------------- static files
\* strings.Contains(header, name) on a header written as the sequence of its
\* tokens: encoding names, parameters and separators
Contains(s, name) == \E i \in DOMAIN s : s[i] = name

\* os.Stat(fullPath + ext) finds something that is not a directory
IsSidecar(kind) == kind = "file"

\* the sidecar ServeStatic picks: "br", "gzip" or none
Negotiated(acceptEncoding, br, gz) ==
    IF Contains(acceptEncoding, "br") /\ IsSidecar(br) THEN "br"
    ELSE IF Contains(acceptEncoding, "gzip") /\ IsSidecar(gz) THEN "gzip"
    ELSE ""

NoStaticHeader == [ Vary |-> "", ContentEncoding |-> "" ]

\* Paths are written as the sequence of their separators and elements.
\* the elements of a path, empty ones left out
Elements(path) == SelectSeq(path, LAMBDA t : t # "/")

\* the path begins with a separator
Rooted(path) == path # << >> /\ path[1] = "/"

\* filepath.Clean's pass over the elements: "." is dropped, ".." takes the
\* element before it away, is dropped at the head of a rooted path and kept
\* at the head of any other
RECURSIVE Lexical(_, _, _)
Lexical(rooted, elems, out) ==
    IF elems = << >> THEN out
    ELSE LET e == Head(elems)
             kept == IF e = "." THEN out
                     ELSE IF e # ".." THEN Append(out, e)
                     ELSE IF out # << >> /\ out[Len(out)] # ".."
                     THEN SubSeq(out, 1, Len(out) - 1)
                     ELSE IF rooted THEN out
                     ELSE Append(out, e)
         IN  Lexical(rooted, Tail(elems), kept)

\* the elements with one separator between them
RECURSIVE Separated(_)
Separated(elems) ==
    IF Len(elems) <= 1 THEN elems
    ELSE << Head(elems), "/" >> \o Separated(Tail(elems))

\* filepath.Clean
Clean(path) ==
    LET elems == Lexical(Rooted(path), Elements(path), << >>)
    IN  IF Rooted(path) THEN << "/" >> \o Separated(elems)
        ELSE IF elems = << >> THEN << "." >>
        ELSE Separated(elems)

\* filepath.Join of two elements, neither of them empty
Join(dir, name) == Clean(dir \o << "/" >> \o name)

\* ServeStatic for a request without Range or conditional headers.  path is
\* what os.Stat finds at the requested path: nothing, an error, a directory
\* without index.html (listed), a directory with one, or a file; opens: os.Open
\* of the file picked succeeds.
ServeStatic ==
    /\ static.pc = "request"
    /\ LET enc == Negotiated(static.acceptEncoding, static.br, static.gz)
           fullPath == Join(static.root, Clean(static.urlPath))
           stat == [static EXCEPT !.fullPath = fullPath]
       IN  static' =
             CASE static.path = "missing" ->
                    [stat EXCEPT !.pc = "done", !.status = StatusNotFound]
               [] static.path = "error" ->
                    [stat EXCEPT !.pc = "done", !.status = StatusInternalServerError]
               [] static.path = "listing" ->
                    [stat EXCEPT !.pc = "done", !.status = StatusOK,
                                   !.served = "listing"]
               [] OTHER ->
                    IF ~static.opens
                    THEN [stat EXCEPT !.pc = "done",
                                        !.status = StatusInternalServerError]
                    ELSE [stat EXCEPT !.pc = "done", !.status = StatusOK,
                                        !.header = [ Vary |-> "Accept-Encoding",
                                                     ContentEncoding |-> enc ],
                                        !.served = IF enc = "" THEN "original" ELSE enc]
    /\ UNCHANGED << tokenAuth, dns >>
    /\ UNCHANGED exceptCalls

\* -------------------------------------------------------------- token check
\* "Bearer " at the head of the Authorization header
BearerPrefix == << "Bearer", " " >>

\* Faulty variant: only the X-API-Token header is looked at.
TokenOfHeaderOnly(xToken, authorization) == xToken

\* the token of the request: the X-API-Token header or, when that is empty,
\* what follows "Bearer " in the Authorization header, if it starts with it
TokenOf(xToken, authorization) ==
    IF xToken # << >> THEN xToken
    ELSE IF HasPrefix(authorization, BearerPrefix)
    THEN SubSeq(authorization, Len(BearerPrefix) + 1, Len(authorization))
    ELSE << >>

\* subtle.ConstantTimeCompare(x, y) == 1
ConstantTimeCompare(x, y) ==
    Len(x) = Len(y) /\ \A i \in 1..Len(x) : x[i] = y[i]

\* TokenAuthMiddleware around a handler that answers 200: next is whether
\* that handler was called, status what the client gets
TokenAuthMiddleware ==
    /\ tokenAuth.pc = "request"
    /\ tokenAuth' =
          IF ~tokenAuth.GlobalConf \/ tokenAuth.APIToken = << >>
          THEN [tokenAuth EXCEPT !.pc = "done", !.next = TRUE, !.status = StatusOK]
          ELSE IF ~ConstantTimeCompare(TokenOf(tokenAuth.xToken, tokenAuth.authorization),
                                       tokenAuth.APIToken)
          THEN [tokenAuth EXCEPT !.pc = "done", !.status = StatusUnauthorized]
          ELSE [tokenAuth EXCEPT !.pc = "done", !.next = TRUE, !.status = StatusOK]
    /\ UNCHANGED << static, dns >>
    /\ UNCHANGED exceptCalls

\* ---------------------------------------------------------------- DNS
\* rcodes of the replies
RcodeSuccess == "NOERROR"
RcodeServerFailure == "SERVFAIL"
RcodeNameError == "NXDOMAIN"

\* Config.Zones: one zone, with an A record at the apex, a CNAME and an MX
Zone == << "example.com" >>
ZoneRecords ==
    { [ Name |-> << "@" >>, Type |-> "A" ], [ Name |-> << "www" >>, Type |-> "CNAME" ],
      [ Name |-> << "mail" >>, Type |-> "MX" ] }

\* strings.HasSuffix(name, z+".") for the zone
InZone(name) == HasSuffix(name, Zone \o << "." >>)

\* findRecords for a question of type A: the number of answers and whether
\* the name has a record at all; a CNAME is returned whatever type was asked
findRecords(qname) ==
    LET zoneDot == Zone \o << "." >>
        known == qname = zoneDot \/ HasSuffix(qname, << "." >> \o zoneDot)
        relative == IF qname = zoneDot THEN << "@" >>
                    ELSE SubSeq(qname, 1, Len(qname) - Len(zoneDot) - 1)
        named == { rec \in ZoneRecords : known /\ rec.Name = relative }
    IN  [ answers |-> Cardinality({ rec \in named : rec.Type \in { "CNAME", "A" } }),
          foundName |-> named # {} ]

\* msg.SetReply(r) with msg.Authoritative = true
NewReply == [ Rcode |-> RcodeSuccess, Authoritative |-> TRUE, Answer |-> 0,
              origin |-> "handler" ]

\* the loop of ServeDNS over r.Question from the i-th question on: the reply
\* it builds, or the decision to forward the query
RECURSIVE ServeQuestions(_, _, _, _)
ServeQuestions(msg, questions, upstreams, i) ==
    IF i > Len(questions) THEN [ forward |-> FALSE, msg |-> msg ]
    ELSE IF ~InZone(questions[i])
    THEN IF Len(upstreams) > 0
         THEN [ forward |-> TRUE, msg |-> msg ]
         ELSE ServeQuestions([msg EXCEPT !.Rcode = RcodeNameError], questions,
                             upstreams, i + 1)
    ELSE LET found == findRecords(questions[i])
         IN  IF found.answers > 0
             THEN ServeQuestions([msg EXCEPT !.Answer = @ + found.answers], questions,
                                 upstreams, i + 1)
             ELSE IF ~found.foundName
             THEN ServeQuestions([msg EXCEPT !.Rcode = RcodeNameError], questions,
                                 upstreams, i + 1)
             ELSE ServeQuestions(msg, questions, upstreams, i + 1)

\* ServeDNS up to w.WriteMsg(msg) or to the first Exchange of handleForwarding
ServeDNS ==
    /\ dns.pc = "query"
    /\ LET loop == ServeQuestions(NewReply, dns.Question, dns.UpstreamResolvers, 1)
       IN  dns' = IF loop.forward
                  THEN [dns EXCEPT !.pc = "forward"]
                  ELSE [dns EXCEPT !.pc = "done", !.written = Append(@, loop.msg)]
    /\ UNCHANGED << static, tokenAuth >>
    /\ UNCHANGED exceptCalls

\* target of an upstream: ":53" is added when the address names no port
Target(upstream) ==
    IF Contains(upstream, ":") THEN upstream ELSE upstream \o << ":", "53" >>

\* the reply relayed for an upstream's answer
Relayed(out) ==
    [ Rcode |-> out.Rcode, Authoritative |-> FALSE, Answer |-> out.Answer,
      origin |-> "upstream" ]

\* m.SetRcode(r, dns.RcodeServerFailure) on a new message
ServerFailure ==
    [ Rcode |-> RcodeServerFailure, Authoritative |-> FALSE, Answer |-> 0,
      origin |-> "handler" ]

\* Faulty variant: the first upstream that fails ends the forwarding.
handleForwardingNoFailover(out) ==
    /\ dns.pc = "forward"
    /\ dns.upstream <= Len(dns.UpstreamResolvers)
    /\ LET target == Target(dns.UpstreamResolvers[dns.upstream])
           asked == Append(dns.exchanged, [ target |-> target, out |-> out ])
       IN  dns' = IF ~out.err
                  THEN [dns EXCEPT !.pc = "done", !.exchanged = asked,
                                   !.written = Append(@, Relayed(out))]
                  ELSE [dns EXCEPT !.pc = "done", !.exchanged = asked,
                                   !.written = Append(@, ServerFailure)]
    /\ UNCHANGED << static, tokenAuth >>
    /\ UNCHANGED exceptCalls

\* one turn of handleForwarding's loop: Exchange with the next upstream; its
\* answer is relayed and ends the handler, an error moves on to the next one
handleForwarding(out) ==
    /\ dns.pc = "forward"
    /\ dns.upstream <= Len(dns.UpstreamResolvers)
    /\ LET target == Target(dns.UpstreamResolvers[dns.upstream])
           asked == Append(dns.exchanged, [ target |-> target, out |-> out ])
       IN  dns' = IF ~out.err
                  THEN [dns EXCEPT !.pc = "done", !.exchanged = asked,
                                   !.written = Append(@, Relayed(out))]
                  ELSE [dns EXCEPT !.upstream = @ + 1, !.exchanged = asked]
    /\ UNCHANGED << static, tokenAuth >>
    /\ UNCHANGED exceptCalls

\* handleForwarding after its loop: every upstream returned an error
handleForwardingFailed ==
    /\ dns.pc = "forward"
    /\ dns.upstream > Len(dns.UpstreamResolvers)
    /\ dns' = [dns EXCEPT !.pc = "done", !.written = Append(@, ServerFailure)]
    /\ UNCHANGED << static, tokenAuth >>
    /\ UNCHANGED exceptCalls

\* ----------------------------------------------------------- specification
MaxOf(a, b) == IF a > b THEN a ELSE b
Requests == 1..MaxOf(MaxOf(MaxReq, MaxOf(MaxStartReq, MaxOf(MaxAuthReq, MaxDispatchReq))),
                     MaxOf(MaxPluginReq, MaxLogReq))

\* request inputs: Host headers and URL paths as token sequences
Index == << "/", "index", ".html" >>
Script == << "/", "x", ".php" >>
DockerPs == << "/", "docker", "/", "ps" >>
Protected == << "/", "protected", ".html" >>
ProtectedScript == << "/", "protected", "/", "x", ".php" >>

Req(port, host, path, auth) ==
    [ port |-> port, host |-> host, path |-> path, auth |-> auth ]

\* load on the two limited sites of the shared port
AdmissionInputs ==
    { Req(80, <<"a">>, Index, << >>), Req(80, <<"b">>, Index, << >>) }

\* every routing case and every plugin decision
PluginInputs ==
    { Req(80, h, Index, << >>) :
        h \in { <<"a">>, <<"b", ":", "8080">>, <<"c">>, <<"x", ":", "80">> } }
    \cup { Req(80, <<"b">>, p, << >>) : p \in { Script, DockerPs } }
    \cup { Req(80, <<"b">>, Protected, a) :
             a \in { <<"admin", "pw">>, <<"admin", "no">> } }
    \cup { Req(81, <<"d">>, Index, << >>) }

\* proxy configurations: targets and flush intervals with and without the
\* key separator, two buffer sizes
ProxyConfs ==
    [ ProxyPass : { <<"t">>, <<"t", "|", "f">>, <<"u">>, <<"%zz">> },
      FlushInterval : { << >>, <<"f">>, <<"f", "|">> },
      BufferSizeKB : { 0, 64 } ]

InitChains(bench) ==
    /\ enableBench = bench
    /\ chains = << BaseChain(bench) >>
    /\ mwManagerCopy = [ s \in Sites |-> 0 ]
    /\ siteMwManager = [ s \in Sites |-> 0 ]
    /\ siteHandler = [ s \in Sites |-> << >> ]
    /\ chainPc = [ s \in Sites |-> "start" ]
    /\ used = [ s \in Sites |-> 0 ]

\* the compression stage with no request in it
NoHeader == [ ContentType |-> << >>, ContentEncoding |-> "", ContentLength |-> FALSE,
              Vary |-> "" ]

InitGzip(req, at) ==
    /\ gzReq = req
    /\ gzPc = at
    /\ header = NoHeader
    /\ gw = [ wrapped |-> FALSE, checked |-> FALSE, shouldCompress |-> FALSE ]
    /\ gzipWriter = << >>
    /\ gzipWriterPool = [ gets |-> 0, closes |-> 0, puts |-> 0 ]
    /\ wire = [ status |-> 0, body |-> << >> ]
    /\ written = << >>
    /\ decision = [ made |-> FALSE, ContentType |-> << >>, ContentEncoding |-> "" ]

NoGzipRequest == [ AcceptGzip |-> FALSE, WebSocketKey |-> FALSE ]

\* the timed request before its handler is entered
InitTimeout(T, delay, at) ==
    /\ tmConf = T
    /\ tmDelay = delay
    /\ tmClock = 0
    /\ tmPc = at
    /\ tmStatus = 0
    /\ tmWire = 0

InitProxyPool ==
    /\ sharedProxyMap = NoEntries
    /\ proxies = << >>
    /\ siteProxy = NoEntries

\* the ports of the main deployment: the virtual hosts and the proxy site
MainPorts == { 80, 81 }

\* no requests; the main deployment's configurations
NoLoad == [ reqs |-> {}, inputs |-> {}, ports |-> MainPorts, goroutines |-> FALSE ]

\* InitPlugins has run and every OnInit returned nil
Initialised == [ calls |-> 1, err |-> FALSE ]

InitServers ==
    /\ InitProxyPool
    /\ starting = {}
    /\ InitAsyncLogger
    /\ started = {}
    /\ serving = {}
    /\ radixTree = [ p \in Ports |-> NoEntries ]
    /\ initCalls = [ s \in Sites |-> 0 ]
    /\ phpSiteConfigs = NoEntries
    /\ authSiteConfigs = NoEntries
    /\ authStates = NoEntries
    /\ dockerConfig = [ Enable |-> FALSE ]
    /\ dockerStandardStates = NoEntries
    /\ statusCode = [ r \in Requests |-> 0 ]
    /\ logged = [ r \in Requests |-> 0 ]
    /\ sem = [ s \in Sites |-> 0 ]
    /\ pc = [ r \in Requests |-> "idle" ]
    /\ rq = [ r \in Requests |-> NoRequest ]
    /\ site = [ r \in Requests |-> 0 ]
    /\ idx = [ r \in Requests |-> 1 ]
    /\ resp = [ r \in Requests |-> 0 ]
    /\ log = [ r \in Requests |-> << >> ]

\* no call of the static file handler and none of the token check
NoStatic == [ pc |-> "off" ]
NoTokenAuth == [ pc |-> "off" ]

NoDNS == [ pc |-> "off" ]

InitCalls == static = NoStatic /\ tokenAuth = NoTokenAuth /\ dns = NoDNS

InitState ==
    /\ onInit = Initialised
    /\ InitServers

Init ==
    /\ InitState
    /\ InitChains(FALSE)
    /\ InitGzip(NoGzipRequest, "off")
    /\ InitTimeout(0, 0, "off")
    /\ InitCalls
    /\ load = [ reqs |-> 1..MaxReq, inputs |-> AdmissionInputs,
               ports |-> MainPorts, goroutines |-> FALSE ]

InitPlugins ==
    /\ InitState
    /\ InitChains(FALSE)
    /\ InitGzip(NoGzipRequest, "off")
    /\ InitTimeout(0, 0, "off")
    /\ InitCalls
    /\ load = [ reqs |-> 1..MaxPluginReq, inputs |-> PluginInputs,
               ports |-> MainPorts, goroutines |-> FALSE ]

Next ==
    \/ \E p \in Ports : startSingleServer(p)
    \/ \E p \in Ports : startVirtualHostServer(p)
    \/ \E r \in Requests : mainHandler(r)
    \/ \E r \in Requests : ConcurrencyMiddleware(r)
    \/ \E r \in Requests : BeforeRequest(r)
    \/ \E r \in Requests : HandleRequest(r)
    \/ \E r \in Requests : InnerHandler(r)
    \/ \E r \in Requests : AfterRequest(r)
    \/ \E r \in Requests : ReleaseToken(r)

Spec == Init /\ [][Next]_vars

SpecPlugins == InitPlugins /\ [][Next]_vars

\* responses of every origin on sites with and without logging: the inner
\* handler, the admission stage, a plugin that handles the request, and a
\* plugin that writes and declines
LoggingInputs ==
    { Req(80, <<"a">>, Index, << >>), Req(80, <<"b">>, Protected, << >>),
      Req(80, <<"e">>, Index, << >>), Req(81, <<"d">>, Index, << >>) }

InitLogging ==
    /\ InitState
    /\ InitChains(FALSE)
    /\ InitGzip(NoGzipRequest, "off")
    /\ InitTimeout(0, 0, "off")
    /\ InitCalls
    /\ load = [ reqs |-> 1..MaxLogReq, inputs |-> LoggingInputs,
               ports |-> MainPorts, goroutines |-> FALSE ]

SpecLogging == InitLogging /\ [][Next]_vars

\* one request through the compression stage: every combination of request
\* headers, response headers and writes of text and binary bytes
ContentTypes ==
    { << >>, << "text/plain" >>, << "text/css", ";", " charset=utf-8" >>,
      << "image/png" >> }
Chunks == { << "t" >>, << "z" >> }

InitCompression ==
    /\ InitState
    /\ InitChains(FALSE)
    /\ load = NoLoad
    /\ \E req \in [ AcceptGzip : BOOLEAN, WebSocketKey : BOOLEAN ] :
           InitGzip(req, "start")
    /\ InitTimeout(0, 0, "off")
    /\ InitCalls

NextCompression ==
    \/ GzipMiddleware
    \/ \E ct \in ContentTypes, ce \in { "", "gzip" }, cl \in BOOLEAN :
           SetHeaders(ct, ce, cl)
    \/ \E status \in { StatusOK, StatusNotFound } : GzipWriteHeader(status)
    \/ \E b \in Chunks : GzipWrite(b)
    \/ Close
    \/ Panic

SpecCompression == InitCompression /\ [][NextCompression]_vars

\* the compression stage under a handler that also changes headers late
NextDecision ==
    \/ NextCompression
    \/ \E ct \in ContentTypes, ce \in { "", "gzip" } : SetHeadersLate(ct, ce)

SpecDecision == InitCompression /\ [][NextDecision]_vars

\* the proxy pool alone, called for configurations in every order
InitProxy ==
    /\ InitState
    /\ InitChains(FALSE)
    /\ InitGzip(NoGzipRequest, "off")
    /\ InitTimeout(0, 0, "off")
    /\ InitCalls
    /\ load = NoLoad

NextProxy == \E conf \in ProxyConfs : getSharedReverseProxy(conf)

SpecProxy == InitProxy /\ [][NextProxy]_vars

\* the handlers of all sites being built, with and without benchmarking
InitChain ==
    /\ InitState
    /\ InitGzip(NoGzipRequest, "off")
    /\ InitTimeout(0, 0, "off")
    /\ InitCalls
    /\ load = NoLoad
    /\ \E bench \in BOOLEAN : InitChains(bench)

NextChain ==
    \/ \E s \in Sites : CopyBase(s)
    \/ \E s \in Sites : UsePluginMiddleware(s)
    \/ \E s \in Sites : CopySite(s)
    \/ \E s \in Sites : Use(s)
    \/ \E s \in Sites : ApplyChain(s)

SpecChain == InitChain /\ [][NextChain]_vars

\* the asynchronous logger alone: producers and the worker at any speed
InitLogger ==
    /\ InitState
    /\ InitChains(FALSE)
    /\ InitGzip(NoGzipRequest, "off")
    /\ InitTimeout(0, 0, "off")
    /\ InitCalls
    /\ load = NoLoad

NextLogger ==
    \/ \E p \in Producers : GetEntry(p)
    \/ \E p \in Producers : FillEntry(p)
    \/ \E p \in Producers : Log(p)
    \/ workerReceive
    \/ workerPutEntry

SpecLogger == InitLogger /\ [][NextLogger]_vars

\* the logger shut down at any moment while requests are being logged, the
\* goroutines scheduled
NextShutdown == NextLogger \/ Shutdown

SpecShutdown ==
    /\ InitLogger
    /\ [][NextShutdown]_vars
    /\ \A p \in Producers : WF_vars(FillEntry(p)) /\ WF_vars(Log(p))
    /\ WF_vars(workerReceive)
    /\ WF_vars(workerPutEntry)

\* the same with the goroutines scheduled: a producer that has an entry goes
\* on to Log, and the worker, which runs for as long as the process does,
\* takes what is in the channel and finishes the entry it has taken
SpecLoggerLive ==
    /\ SpecLogger
    /\ \A p \in Producers : WF_vars(FillEntry(p)) /\ WF_vars(Log(p))
    /\ WF_vars(workerReceive)
    /\ WF_vars(workerPutEntry)

\* one request through a site's handler, for every timeout and handler delay
RequestTimeouts == { -5, -1, 0, 1, 2 }
Delays == { 1, 2, 3, DefaultRequestTimeout, MaxDelay }

InitTimed ==
    /\ InitState
    /\ InitChains(FALSE)
    /\ InitGzip(NoGzipRequest, "off")
    /\ load = NoLoad
    /\ \E T \in RequestTimeouts, delay \in Delays : InitTimeout(T, delay, "handler")
    /\ InitCalls

NextTimed == Tick \/ ServeHTTP

SpecTimed == InitTimed /\ [][NextTimed]_vars

\* one client's requests to the site with protected paths: a page and a
\* script under the protected prefix, without credentials, with the right
\* ones and with wrong ones, and a page outside the prefix
AuthInputs ==
    { Req(80, <<"b">>, Protected, a) :
        a \in { << >>, <<"admin", "pw">>, <<"admin", "no">> } }
    \cup { Req(80, <<"b">>, ProtectedScript, << >>), Req(80, <<"b">>, Index, << >>) }

InitAuth ==
    /\ InitState
    /\ InitChains(FALSE)
    /\ InitGzip(NoGzipRequest, "off")
    /\ InitTimeout(0, 0, "off")
    /\ InitCalls
    /\ load = [ reqs |-> 1..MaxAuthReq, inputs |-> AuthInputs,
               ports |-> MainPorts, goroutines |-> FALSE ]

SpecAuth == InitAuth /\ [][Next]_vars

\* one request to the static file handler: every kind of path, Accept-Encoding
\* headers that name, omit and refuse the two encodings, every kind of sidecar
StaticPaths == { "missing", "error", "listing", "index", "file" }
Sidecars == { "none", "dir", "file" }
AcceptEncodings ==
    { << >>, <<"gzip">>, <<"br">>, <<"gzip", ",", "br">>, <<"identity">>,
      <<"br", ";q=0">>, <<"gzip", ";q=0", ",", "br">>, <<"deflate", ",", "gzip">> }

\* the site's root_directory and the request paths: plain, with "." and
\* ".." elements and doubled separators, rooted and not, empty and "*"
SiteRoot == << "/", "srv", "/", "www" >>
URLPaths ==
    { << "/" >>, << "/", "index.html" >>, << "/", "a", "/", "..", "/", "b" >>,
      << "/", "a", "/", "/", ".", "/", "b" >>,
      << "/", "..", "/", "..", "/", "etc", "/", "passwd" >>,
      << >>, << "*" >>, << "a", "/", "..", "/", "b" >>,
      << "..", "/", "..", "/", "etc", "/", "passwd" >> }

InitStatic ==
    /\ InitState
    /\ InitChains(FALSE)
    /\ InitGzip(NoGzipRequest, "off")
    /\ InitTimeout(0, 0, "off")
    /\ load = NoLoad
    /\ tokenAuth = NoTokenAuth
    /\ dns = NoDNS
    /\ static \in [ pc : {"request"}, path : StaticPaths,
                     acceptEncoding : AcceptEncodings, br : Sidecars, gz : Sidecars,
                     opens : BOOLEAN, status : {0}, header : {NoStaticHeader},
                     served : {""}, root : {SiteRoot}, urlPath : URLPaths,
                     fullPath : {<< >>} ]

NextStatic == ServeStatic

SpecStatic == InitStatic /\ [][NextStatic]_vars

\* one request to the token check: no configuration, one without a token and
\* one with it; headers that are absent, right, wrong and nearly right
APIToken == << "s3cret" >>
GlobalConfs ==
    { [ GlobalConf |-> FALSE, APIToken |-> << >> ],
      [ GlobalConf |-> TRUE, APIToken |-> << >> ],
      [ GlobalConf |-> TRUE, APIToken |-> APIToken ] }
XTokens == { << >>, APIToken, <<"wrong">>, APIToken \o <<"x">> }
Authorizations ==
    { << >>, BearerPrefix \o APIToken, BearerPrefix \o <<"wrong">>, BearerPrefix,
      <<"bearer", " ">> \o APIToken, <<"Basic", " ">> \o APIToken }

InitToken ==
    /\ InitState
    /\ InitChains(FALSE)
    /\ InitGzip(NoGzipRequest, "off")
    /\ InitTimeout(0, 0, "off")
    /\ load = NoLoad
    /\ static = NoStatic
    /\ dns = NoDNS
    /\ \E conf \in GlobalConfs, x \in XTokens, a \in Authorizations :
          tokenAuth = [ pc |-> "request", GlobalConf |-> conf.GlobalConf,
                        APIToken |-> conf.APIToken, xToken |-> x,
                        authorization |-> a, next |-> FALSE, status |-> 0 ]

NextToken == TokenAuthMiddleware

SpecToken == InitToken /\ [][NextToken]_vars

\* one DNS query: questions for names inside and outside the zone, resolver
\* lists with and without a port, and every outcome of an Exchange
SeqsUpTo(S, n) == UNION { [ 1..k -> S ] : k \in 0..n }

QuestionNames ==
    { << "example.com", "." >>, << "www", ".", "example.com", "." >>,
      << "mail", ".", "example.com", "." >>, << "foo", ".", "example.com", "." >>,
      << "google.com", "." >> }

Resolvers == { << "10.0.0.1" >>, << "10.0.0.2", ":", "5353" >> }

\* what dns.Client.Exchange returns: an error, or the upstream's message
ExchangeOutcomes ==
    { [ err |-> TRUE, Rcode |-> "", Answer |-> 0, Authoritative |-> FALSE ],
      [ err |-> FALSE, Rcode |-> RcodeSuccess, Answer |-> 1, Authoritative |-> TRUE ],
      [ err |-> FALSE, Rcode |-> RcodeSuccess, Answer |-> 1, Authoritative |-> FALSE ],
      [ err |-> FALSE, Rcode |-> RcodeNameError, Answer |-> 0, Authoritative |-> TRUE ],
      [ err |-> FALSE, Rcode |-> RcodeServerFailure, Answer |-> 0,
        Authoritative |-> FALSE ] }

InitDNS ==
    /\ InitState
    /\ InitChains(FALSE)
    /\ InitGzip(NoGzipRequest, "off")
    /\ InitTimeout(0, 0, "off")
    /\ load = NoLoad
    /\ static = NoStatic
    /\ tokenAuth = NoTokenAuth
    /\ \E questions \in SeqsUpTo(QuestionNames, MaxQuestions),
          upstreams \in SeqsUpTo(Resolvers, MaxUpstreams) :
          dns = [ pc |-> "query", Question |-> questions,
                  UpstreamResolvers |-> upstreams, upstream |-> 1,
                  exchanged |-> << >>, written |-> << >> ]

NextDNS ==
    \/ ServeDNS
    \/ \E out \in ExchangeOutcomes : handleForwarding(out)
    \/ handleForwardingFailed

SpecDNS == InitDNS /\ [][NextDNS]_vars

\* the whole of StartServers: InitPlugins, then one goroutine per port, and
\* requests to every site of the ports with a configuration error while the
\* ports start one after the other in any order
ErrorPorts == { 81, 82, 83, 84 }

StartupInputs ==
    { Req(81, <<"d">>, Index, << >>), Req(82, <<"f">>, Index, << >>),
      Req(82, <<"g">>, Index, << >>), Req(82, <<"h">>, Index, << >>),
      Req(83, <<"i">>, Index, << >>), Req(84, <<"j">>, Index, << >>) }

NotInitialised == [ calls |-> 0, err |-> FALSE ]

InitStartup ==
    /\ onInit = NotInitialised
    /\ InitServers
    /\ InitChains(FALSE)
    /\ InitGzip(NoGzipRequest, "off")
    /\ InitTimeout(0, 0, "off")
    /\ InitCalls
    /\ load = [ reqs |-> 1..MaxStartReq, inputs |-> StartupInputs,
               ports |-> ErrorPorts, goroutines |-> TRUE ]

\* PluginManager.InitPlugins returns the first error of a plugin's OnInit, or
\* nil when every OnInit succeeded
InitPluginsErrs == BOOLEAN

NextStartup ==
    \/ \E err \in InitPluginsErrs : StartServers(err)
    \/ \E p \in Ports : Go(p)
    \/ Next

SpecStartup == InitStartup /\ [][NextStartup]_vars

\* three ports, two of them shared, and requests that name a host of their
\* own port or a host configured on another port
DispatchPorts == { 80, 81, 82 }

DispatchInputs ==
    { Req(80, <<"a">>, Index, << >>), Req(80, <<"b">>, Index, << >>),
      Req(80, <<"g">>, Index, << >>), Req(82, <<"g">>, Index, << >>),
      Req(82, <<"a">>, Index, << >>), Req(81, <<"a">>, Index, << >>) }

InitDispatch ==
    /\ InitState
    /\ InitChains(FALSE)
    /\ InitGzip(NoGzipRequest, "off")
    /\ InitTimeout(0, 0, "off")
    /\ InitCalls
    /\ load = [ reqs |-> 1..MaxDispatchReq, inputs |-> DispatchInputs,
               ports |-> DispatchPorts, goroutines |-> FALSE ]

SpecDispatch == InitDispatch /\ [][Next]_vars

\* ============================================================== properties
Limit(s) == Configs[s].max_concurrent_connections

\* the request is inside the handler that the concurrency middleware wraps
InsideInner(r) == pc[r] \in {"before", "handle", "inner", "after"}

\* the request holds a token: admitted, and its deferred release has not run
HoldsToken(r) == Limit(site[r]) > 0 /\ (InsideInner(r) \/ pc[r] = "release")

\* the request was answered by the default branch of the select
Rejected(r) == pc[r] = "done" /\ site[r] # 0 /\ log[r] = << <<"Reject", "">> >>

\* the request was admitted (or the site is unlimited) and has finished
Completed(r) == pc[r] = "done" /\ site[r] # 0 /\ ~Rejected(r)

Inside(s) == { r \in Requests : site[r] = s /\ InsideInner(r) }
Holders(s) == { r \in Requests : site[r] = s /\ HoldsToken(r) }
RejectedOf(s) == { r \in Requests : site[r] = s /\ Rejected(r) }
CompletedOf(s) == { r \in Requests : site[r] = s /\ Completed(r) }

\* C1: for a site with max_concurrent_connections = N > 0, at most N requests
\* are inside the wrapped inner handler, in every reachable state.
C1_AtMostNInside ==
    \A s \in Sites : Limit(s) > 0 => Cardinality(Inside(s)) <= Limit(s)

\* C1 witness: the site limited to two has two requests inside while a third
\* request to it has been turned away.
C1_Witness ==
    \E s \in Sites :
        Limit(s) = 2 /\ Cardinality(Inside(s)) = 2 /\ RejectedOf(s) # {}

\* C2: when N requests of the site hold tokens, the concurrency middleware
\* answers a further request at once (its step is always enabled, it never
\* waits for a token) with 503, and the request ends there: nothing of the
\* inner handler is run for it.
C2_RejectedAtOnce ==
    /\ [](\A r \in Requests : pc[r] = "admission" => ENABLED ConcurrencyMiddleware(r))
    /\ [][\A r \in Requests :
            ( /\ pc[r] = "admission"
              /\ pc'[r] # "admission"
              /\ Cardinality(Holders(site[r])) = Limit(site[r]) )
            => ( /\ pc'[r] = "done"
                 /\ resp'[r] = StatusServiceUnavailable
                 /\ log'[r] = << <<"Reject", "">> >> )]_vars

\* C2 witness: a request has been answered 503 with nothing but the rejection
\* in its log while the site's N tokens are all held by other requests.
C2_Witness ==
    \E r \in Requests :
        /\ Rejected(r)
        /\ resp[r] = StatusServiceUnavailable
        /\ Cardinality(Holders(site[r])) = Limit(site[r])

\* C3: if the requests of a limited site all reach the semaphore before any
\* admitted one has given its token back, and there are at least N of them,
\* then exactly N are admitted and all the others are answered 503.
C3_ExactlyNAdmitted ==
    \A s \in Sites :
        ( /\ Limit(s) > 0
          /\ CompletedOf(s) = {}
          /\ Cardinality(Holders(s)) + Cardinality(RejectedOf(s)) >= Limit(s) )
        => ( /\ Cardinality(Holders(s)) = Limit(s)
             /\ \A r \in RejectedOf(s) : resp[r] = StatusServiceUnavailable
             /\ \A r \in Holders(s) : resp[r] # StatusServiceUnavailable )

\* C3 witness: N = 1 and three simultaneous requests: one is admitted and two
\* are answered 503.
C3_Witness ==
    \E s \in Sites :
        /\ Limit(s) = 1
        /\ CompletedOf(s) = {}
        /\ Cardinality(Holders(s)) = 1
        /\ Cardinality(RejectedOf(s)) = 2

\* C4: when no request of the site holds a token any more, the next request
\* that reaches the semaphore is admitted to the inner handler and is not
\* answered 503, whatever was admitted or rejected before.
C4_CapacityRecovered ==
    [][\A r \in Requests :
          ( /\ pc[r] = "admission"
            /\ pc'[r] # "admission"
            /\ Holders(site[r]) = {} )
          => ( /\ pc'[r] = PipelineEntry(site[r])
               /\ resp'[r] # StatusServiceUnavailable )]_vars

\* C4 witness: a request is inside the inner handler of the site limited to
\* one after an earlier request of that site completed and another was
\* rejected.
C4_Witness ==
    \E s \in Sites :
        /\ Limit(s) = 1
        /\ Inside(s) # {}
        /\ CompletedOf(s) # {}
        /\ RejectedOf(s) # {}

\* ------------------------------------------------------- routing properties
\* the Host header without its ":port" suffix, as a client reads it: the part
\* before the last colon
LastColon(host) ==
    IF \E i \in 1..Len(host) : host[i] = ":"
    THEN CHOOSE i \in 1..Len(host) : host[i] = ":" /\ \A j \in (i+1)..Len(host) : host[j] # ":"
    ELSE 0
hostName ==
    [ host \in { in.host : in \in AdmissionInputs \cup PluginInputs
                                   \cup LoggingInputs \cup StartupInputs
                                   \cup AuthInputs } |->
        IF LastColon(host) # 0 THEN SubSeq(host, 1, LastColon(host) - 1) ELSE host ]
HostName(host) == hostName[host]

Arrived(r) == pc[r] # "idle"
Shared(p) == Len(PortGroup(p)) > 1
sitesOf == [ p \in Ports |-> { s \in Sites : Configs[s].port = p } ]
SitesOf(p) == sitesOf[p]

\* the sites whose handler start-up builds
built == [ s \in Sites |-> HandlerBuilt(Configs[s]) ]
Built(s) == built[s]

\* C5 as stated: on a shared port, a request whose Host (port suffix removed)
\* equals the domain of a site configured on that port is delegated to that
\* site's handler.
C5_Original ==
    \A r \in Requests :
        (Arrived(r) /\ Shared(rq[r].port)) =>
            \A s \in SitesOf(rq[r].port) :
                HostName(rq[r].host) = Configs[s].domain => site[r] = s

\* C5 amended: the request is delegated to that site's handler, and to no
\* other, when the site's handler was built at start-up; when the site's
\* plugin initialisation or handler creation failed, no handler was inserted
\* for its domain and the request is answered 404 by the port's handler.
C5_RoutedToBuiltSite ==
    \A r \in Requests :
        (Arrived(r) /\ Shared(rq[r].port)) =>
            \A s \in SitesOf(rq[r].port) :
                HostName(rq[r].host) = Configs[s].domain =>
                    IF Built(s)
                    THEN site[r] = s
                    ELSE site[r] = 0 /\ resp[r] = StatusNotFound /\ pc[r] = "done"

\* C5 witness: a request with Host "b:8080" has been served to the end by the
\* handler of the site whose domain is "b".
C5_Witness ==
    \E r \in Requests :
        /\ rq[r].host = << "b", ":", "8080" >>
        /\ Configs[site[r]].domain = << "b" >>
        /\ Completed(r)

Kind(e) == e[1]
IsHandle(e) == Kind(e) \in {"HandleRequest:true", "HandleRequest:false"}
IsInner(e) == Kind(e) \in {"ServeHTTP", "panic"}

\* C7: once the HandleRequest of a plugin has returned true for a request,
\* neither the HandleRequest of a later plugin nor the site's inner handler
\* runs for that request.
C7_ShortCircuit ==
    \A r \in Requests : \A i \in DOMAIN log[r] :
        Kind(log[r][i]) = "HandleRequest:true" =>
            \A j \in DOMAIN log[r] :
                j > i => ~IsHandle(log[r][j]) /\ ~IsInner(log[r][j])

\* C7 witness: a finished request that the first of three active plugins
\* handled: two more plugins and the inner handler were left to skip.
C7_Witness ==
    \E r \in Requests :
        /\ Completed(r)
        /\ Len(ActivePlugins(site[r])) = 3
        /\ \E i \in DOMAIN log[r] :
               log[r][i] = << "HandleRequest:true", ActivePlugins(site[r])[1] >>

\* the AfterRequest calls of a site's active plugins, in registration order
afters ==
    [ s \in Sites |->
        [ i \in 1..Len(ActivePlugins(s)) |-> << "AfterRequest", ActivePlugins(s)[i] >> ] ]
Afters(s) == afters[s]

\* C8: for a request that has left the plugin pipeline after its inner handler
\* or a short-circuiting HandleRequest returned, AfterRequest has run exactly
\* once for every active plugin, in registration order, and only after that
\* return.
C8_AfterRequestForAll ==
    \A r \in Requests : \A k \in DOMAIN log[r] :
        ( /\ pc[r] \in {"release", "done"}
          /\ Kind(log[r][k]) \in {"ServeHTTP", "HandleRequest:true"} )
        => ( /\ SubSeq(log[r], k + 1, Len(log[r])) = Afters(site[r])
             /\ \A i \in 1..k : Kind(log[r][i]) # "AfterRequest" )

\* C8 witness: a finished request that the first of three plugins handled and
\* whose log ends with the AfterRequest of all three.
C8_Witness ==
    \E r \in Requests :
        /\ Completed(r)
        /\ Len(ActivePlugins(site[r])) = 3
        /\ \E i \in DOMAIN log[r] :
               /\ log[r][i] = << "HandleRequest:true", ActivePlugins(site[r])[1] >>
               /\ SubSeq(log[r], i + 1, Len(log[r])) = Afters(site[r])

befores ==
    [ s \in Sites |->
        [ i \in 1..Len(ActivePlugins(s)) |-> << "BeforeRequest", ActivePlugins(s)[i] >> ] ]
Befores(s) == befores[s]

\* HandleRequest of the first j active plugins; the last one returns `last`
Handles(s, j, last) ==
    [ i \in 1..j |->
        << IF i = j /\ last THEN "HandleRequest:true" ELSE "HandleRequest:false",
           ActivePlugins(s)[i] >> ]

\* every order of handlers and hooks that the fixed order allows for a site
FullLogs ==
    [ s \in Sites |->
        LET n == Len(ActivePlugins(s))
        IN  { Befores(s) \o Handles(s, j, TRUE) \o Afters(s) : j \in 1..n }
            \cup { Befores(s) \o Handles(s, n, FALSE)
                      \o << <<"ServeHTTP", "">> >> \o Afters(s) }
            \cup { Befores(s) \o Handles(s, n, FALSE) \o << <<"panic", "">> >> } ]

IsPrefix(a, b) == Len(a) <= Len(b) /\ SubSeq(b, 1, Len(a)) = a

\* C9: under every interleaving with other requests, what has run for one
\* request is a prefix of the fixed order (all BeforeRequest, HandleRequest
\* until the first true, the inner handler if none was true, all
\* AfterRequest, each in registration order), and the whole of it once the
\* request has left the pipeline.
C9_FixedHookOrder ==
    \A r \in Requests :
        (site[r] # 0 /\ pc[r] # "admission" /\ ~Rejected(r)) =>
            /\ \E full \in FullLogs[site[r]] : IsPrefix(log[r], full)
            /\ pc[r] \in {"release", "done"} => log[r] \in FullLogs[site[r]]

\* C9 witness: two requests are in the pipeline of the same three-plugin site
\* at once: one has run the whole order through AfterRequest while the other
\* is still between its BeforeRequest and HandleRequest calls.
C9_Witness ==
    \E r1, r2 \in Requests :
        /\ r1 # r2
        /\ site[r1] # 0
        /\ site[r1] = site[r2]
        /\ Len(ActivePlugins(site[r1])) = 3
        /\ pc[r1] = "release" /\ log[r1] \in FullLogs[site[r1]]
        /\ pc[r2] = "handle" /\ log[r2] = Befores(site[r2])

\* C10 as stated: a plugin returns true from HandleRequest (and so has written
\* the response) only for a site whose plugin_configs has an entry under the
\* plugin's name with enable = true.
C10_ActsOnlyWhenEnabled ==
    \A r \in Requests : \A i \in DOMAIN log[r] :
        Kind(log[r][i]) = "HandleRequest:true" =>
            LET name == log[r][i][2]
                blocks == Configs[site[r]].plugin_configs
            IN  name \in DOMAIN blocks /\ IsEnabled(blocks[name])

\* ------------------------------------------------- middleware chain properties
\* C11 as stated: every request that a site with active plugins has answered
\* has had BeforeRequest called for each active plugin, first of all -
\* requests answered 503 by the site's admission control included.
C11_BeforeRequestForEvery ==
    \A r \in Requests :
        (site[r] # 0 /\ resp[r] # 0 /\ ActivePlugins(site[r]) # << >>) =>
            IsPrefix(Befores(site[r]), log[r])

\* C12 as stated: two configurations are given the same proxy instance if and
\* only if their target, flush interval and buffer size are all equal.
C12_SameInstanceIffEqualFields ==
    \A c1, c2 \in DOMAIN siteProxy :
        (siteProxy[c1] = siteProxy[c2]) <=> (c1 = c2)

\* the wrappers a site's chains must hold if no other chain's use reached them
StartChain == BaseChain(enableBench) \o << "PluginMiddleware" >>
FullChain(s) == StartChain \o SiteWrappers(Configs[s])

\* C13: use on a copy never changes the chain it was copied from nor any
\* other copy, however the ports' start functions interleave: the base chain
\* keeps the wrappers StartServers gave it, the start function's copy holds
\* the base wrappers and the plugin middleware whatever createHandler
\* registers on its own copy, each site's own copy holds exactly the wrappers
\* registered on it so far, and apply gives each site its own sequence.
C13_CopiesIndependent ==
    /\ chains[mwManager] = BaseChain(enableBench)
    /\ \A s \in Sites :
        /\ chainPc[s] \in {"use", "apply", "built"} =>
              /\ chains[mwManagerCopy[s]] = StartChain
              /\ chains[siteMwManager[s]] =
                    StartChain \o SubSeq(SiteWrappers(Configs[s]), 1, used[s])
        /\ chainPc[s] = "createHandler" => chains[mwManagerCopy[s]] = StartChain
        /\ chainPc[s] = "built" => siteHandler[s] = Apply(FullChain(s))

\* C13 witness: a site of each port has registered wrappers on its own copy
\* and has not applied it yet, one of them with more to register, after a
\* first site of the shared port had its handler built from a third copy.
C13_Witness ==
    \E s, t, u \in Sites :
        /\ Configs[s].port # Configs[t].port
        /\ chainPc[s] = "use" /\ used[s] > 0
        /\ chainPc[t] = "apply" /\ used[t] > 0
        /\ chainPc[u] = "built"
        /\ siteHandler[u] # << >>

\* requests that have left the handler of a site whose chain has the logging
\* wrapper, by a return (a panic unwinds past the wrapper's logging code)
Returned(r) ==
    /\ pc[r] = "done"
    /\ site[r] # 0
    /\ LoggingEnabled(Configs[site[r]])
    /\ ~Panicked(log[r])

\* C14 as stated: the logging wrapper is outermost, so every response of a
\* site - from the inner handler, from the admission stage (503) or from a
\* plugin - has a log entry, and the entry's status is the one sent to the
\* client.
C14_LoggedStatusIsSent ==
    \A r \in Requests : Returned(r) => (logged[r] # 0 /\ logged[r] = resp[r])

\* ------------------------------------------------ compression properties
\* the bytes of a body or of the handler's Write calls, in order
RECURSIVE Flatten(_)
Flatten(chunks) ==
    IF chunks = << >> THEN << >> ELSE Head(chunks) \o Flatten(Tail(chunks))

Payloads(body) == [ i \in 1..Len(body) |-> body[i][2] ]
AllRaw(body) == \A i \in DOMAIN body : body[i][1] = "raw"

\* what a gzip reader makes of a body: the bytes of its blocks if it is blocks
\* followed by the trailer, an error otherwise
Gunzip(body) ==
    IF /\ body # << >>
       /\ body[Len(body)][1] = "eof"
       /\ \A i \in 1..(Len(body) - 1) : body[i][1] = "gz"
    THEN [ ok |-> TRUE, data |-> Flatten(Payloads(body)) ]
    ELSE [ ok |-> FALSE, data |-> << >> ]

\* C15: if the response carries a Content-Encoding when the first byte or the
\* status is written, the stage sends every body byte on unmodified and adds
\* no encoding of its own: the header keeps the encoding it had.
C15_PreEncodedPassesThrough ==
    (decision.made /\ decision.ContentEncoding # "") =>
        /\ ~gw.shouldCompress
        /\ AllRaw(wire.body)
        /\ Flatten(Payloads(wire.body)) = Flatten(written)
        /\ header.ContentEncoding = decision.ContentEncoding
        /\ gzipWriter = << >>

\* C15 witness: a request that accepts gzip was served a pre-compressed
\* stylesheet in two writes.
C15_Witness ==
    /\ gzPc = "done"
    /\ gzReq.AcceptGzip /\ ~gzReq.WebSocketKey
    /\ decision.made /\ decision.ContentEncoding = "gzip"
    /\ decision.ContentType = << "text/css", ";", " charset=utf-8" >>
    /\ Len(written) = 2

\* the body sent is a gzip stream and the stage has set the encoding header
Encoded ==
    /\ wire.body # << >>
    /\ \A i \in DOMAIN wire.body : wire.body[i][1] \in {"gz", "eof"}
    /\ header.ContentEncoding = "gzip"
    /\ decision.ContentEncoding = ""

PrimaryType(ct) == IF ct = << >> THEN "" ELSE ct[1]

\* C16: a finished response is gzip-encoded by the stage if and only if the
\* request accepts gzip, is not a WebSocket handshake, and at the first write
\* the response had no Content-Encoding and a primary content type of the
\* allow-list; otherwise the body is sent on unencoded, and a WebSocket
\* request is never wrapped.
C16_EncodedIffEligible ==
    /\ gzReq.WebSocketKey => ~gw.wrapped
    /\ gzPc = "done" =>
        /\ Encoded <=> ( /\ gzReq.AcceptGzip
                         /\ ~gzReq.WebSocketKey
                         /\ decision.made
                         /\ decision.ContentEncoding = ""
                         /\ PrimaryType(decision.ContentType) \in compressibleTypes )
        /\ ~Encoded => ( /\ AllRaw(wire.body)
                         /\ Flatten(Payloads(wire.body)) = Flatten(written) )

\* C16 witness: an image/png response to a request that accepts gzip went
\* out unencoded.
C16_Witness ==
    /\ gzPc = "done"
    /\ gzReq.AcceptGzip /\ ~gzReq.WebSocketKey
    /\ decision.made /\ decision.ContentEncoding = ""
    /\ decision.ContentType = << "image/png" >>
    /\ written # << >>
    /\ ~Encoded

\* C17: when the stage has compressed a response, the client's gzip reader
\* gets exactly the bytes the handler wrote, in order, whatever the Write
\* calls were; the stream is complete because the writer is closed when the
\* handler returns.
C17_RoundTrip ==
    (gzPc = "done" /\ gw.shouldCompress) =>
        /\ Gunzip(wire.body).ok
        /\ Gunzip(wire.body).data = Flatten(written)

\* C17 witness: a compressed response written in two different chunks.
C17_Witness ==
    /\ gzPc = "done"
    /\ gw.shouldCompress
    /\ Len(written) = 2
    /\ written[1] # written[2]


\* ------------------------------------------------ asynchronous logger properties
\* C18: Log never blocks its caller: whatever the worker is doing, a producer
\* that has reached Log can take its step; on a full channel the step drops
\* the entry and puts it, reset, back into the pool, otherwise it appends the
\* entry to the channel; in both cases the producer has returned and the
\* worker has not moved.
C18_LogNeverBlocks ==
    /\ [](\A p \in Producers : logPc[p] = "log" => ENABLED Log(p))
    /\ [][\A p \in Producers :
            (logPc[p] = "log" /\ logPc'[p] # "log")
            => ( /\ logPc'[p] = "idle"
                 /\ workerEntry' = workerEntry
                 /\ IF Len(logChan) = LogBufferSize
                    THEN /\ logChan' = logChan
                         /\ entry[p] \in logEntryPool'
                         /\ logEntries'[entry[p]] = EmptyEntry
                         /\ drops' = drops + 1
                    ELSE /\ logChan' = Append(logChan, entry[p])
                         /\ entry[p] \notin logEntryPool'
                         /\ logEntries'[entry[p]] = FilledEntry
                         /\ drops' = drops )]_vars

\* C18 witness: an entry has been dropped and its producer has returned while
\* the channel is full and the worker is still busy with an earlier entry.
C18_Witness ==
    /\ drops > 0
    /\ Len(logChan) = LogBufferSize
    /\ workerEntry # 0
    /\ \E p \in Producers : logPc[p] = "idle" /\ entry[p] = 0
    /\ logEntryPool # {}

\* ---------------------------------------------------- request timeout properties
\* C19: a request whose handler runs for longer than the site's request
\* timeout (request_timeout seconds, 60 when it is 0) is answered 503; with a
\* negative request_timeout, or a handler within the bound, the request ends
\* with the handler's own status.
C19_TimeoutBoundsHandler ==
    tmPc = "done" =>
        tmStatus = IF tmConf >= 0 /\ tmDelay > reqTimeout(tmConf)
                   THEN StatusServiceUnavailable
                   ELSE StatusOK


\* ------------------------------------------------------- start-up properties
\* the sites of a port whose plugin initialisation fails
failedOf == [ p \in Ports |-> { f \in SitesOf(p) : InitPluginsForSiteFails(Configs[f]) } ]
FailedOf(p) == failedOf[p]

\* the site of a started port has its handler registered and was initialised
\* by both InitPluginsForSite calls
Registers(p, s) ==
    /\ Configs[s].domain \in DOMAIN radixTree[p]
    /\ radixTree[p][Configs[s].domain] = s
    /\ initCalls[s] = 2

\* C20: once a shared port with a site whose OnInitForSite fails has started,
\* no handler is registered for the failed site's domain, the port listens,
\* every sibling whose own set-up succeeds is initialised and registered and
\* requests for it are delegated to it, and every other port that has started
\* listens with its sites initialised and serves the requests sent to it.
C20_FailedSiteSkipped ==
    \A p \in started :
        (Shared(p) /\ FailedOf(p) # {}) =>
            /\ \A f \in FailedOf(p) :
                   /\ Configs[f].domain \notin DOMAIN radixTree[p]
                   /\ initCalls[f] = 1
            /\ p \in serving
            /\ \A s \in SitesOf(p) :
                   Built(s) =>
                       /\ Registers(p, s)
                       /\ \A r \in Requests :
                              ( /\ Arrived(r)
                                /\ rq[r].port = p
                                /\ HostName(rq[r].host) = Configs[s].domain )
                              => site[r] = s
            /\ \A q \in started \ {p} : \A s \in SitesOf(q) :
                   Built(s) =>
                       /\ q \in serving
                       /\ initCalls[s] = 2
                       /\ \A r \in Requests :
                              (Arrived(r) /\ rq[r].port = q) => site[r] # 0

\* C20 witness: on port 80, where the plugins of site "c" fail to initialise,
\* a request for the sibling "b" has been served to the end, no handler is
\* registered for "c", and port 81 serves a request as well.
C20_Witness ==
    /\ 80 \in started
    /\ FailedOf(80) # {}
    /\ \A f \in FailedOf(80) : Configs[f].domain \notin DOMAIN radixTree[80]
    /\ \E r \in Requests :
           /\ rq[r].port = 80
           /\ site[r] # 0
           /\ Configs[site[r]].domain = << "b" >>
           /\ Completed(r)
    /\ \E r \in Requests : rq[r].port = 81 /\ site[r] # 0 /\ pc[r] = "done"


\* ------------------------------------------------ configuration error properties
\* the site's configuration has one of the two errors start-up looks for
ConfigError(s) == RootMissing(Configs[s]) \/ InvalidProxyURL(Configs[s])

\* the site's handler is registered with its port: in the radix tree of a
\* shared port, as the handler of the listener of a single-site port
HandlerRegistered(s) ==
    IF Shared(Configs[s].port)
    THEN RadixGet(radixTree[Configs[s].port], Configs[s].domain) = s
    ELSE Configs[s].port \in serving

\* C21: a site whose root directory is missing or whose proxy URL is invalid
\* fails fast at start-up: on a single-site port and on a shared port alike no
\* handler is registered for it and no request is dispatched to it, while the
\* sound sites of a started shared port are registered.
C21_ConfigErrorFailsFast ==
    /\ \A s \in Sites :
          ConfigError(s) =>
              /\ ~HandlerRegistered(s)
              /\ \A r \in Requests : site[r] # s
    /\ \A p \in started : \A s \in SitesOf(p) :
          (Shared(p) /\ ~ConfigError(s) /\ Built(s)) => HandlerRegistered(s)

\* ------------------------------------------------------- global init properties
\* C22: OnInit runs once per process and before any site starts, and a failing
\* OnInit aborts start-up: no port's goroutine is started, no port listens
\* and no OnInitForSite is called.
C22_OnInitFailureAborts ==
    /\ onInit.calls <= 1
    /\ (starting # {} \/ started # {} \/ \E s \in Sites : initCalls[s] > 0) =>
          onInit.calls = 1
    /\ onInit.err =>
          /\ starting = {} /\ started = {} /\ serving = {}
          /\ \A s \in Sites : initCalls[s] = 0
          /\ \A p \in Ports : radixTree[p] = NoEntries
          /\ \A r \in Requests : ~Arrived(r)

\* OnInit has failed: StartServers has returned
C22_Witness == onInit.calls = 1 /\ onInit.err

\* ------------------------------------------------- site initialisation properties
\* C27: start-up calls InitPluginsForSite, and with it every plugin's
\* OnInitForSite, exactly once for a site whose handler it builds, and never a
\* second time for the same site.
C27_OnInitForSiteOnce ==
    /\ \A s \in Sites : initCalls[s] <= 1
    /\ \A p \in started : \A s \in SitesOf(p) :
          (Built(s) /\ ~StartAborts(Configs[s])) => initCalls[s] = 1

\* ------------------------------------------------------ site config map properties
\* the goroutine of port p is between its start and the end of its start
\* function, where OnInitForSite writes the plugins' siteConfigs maps
Writing(p) == p \in starting /\ ~StartAborts(Configs[PortGroup(p)[1]])

\* request r is in HandleRequest of a plugin that reads its siteConfigs map
Reading(r) ==
    /\ pc[r] = "handle"
    /\ site[r] # 0
    /\ idx[r] \in 1..Len(ActivePlugins(site[r]))
    /\ ActivePlugins(site[r])[idx[r]] \in ReadsSiteConfigs

\* C29: no write to a plugin's per-site configuration map is concurrent with
\* a request-path read of it: the accesses are under a mutex, or no port's
\* start function is still to write while a request reads, and no request is
\* served before the OnInitForSite writes of all ports are done.
C29_SiteConfigsNotRaced ==
    \/ SiteConfigsLocked
    \/ /\ \A r \in Requests : Reading(r) => \A p \in Ports : ~Writing(p)
       /\ (\E r \in Requests : Arrived(r)) => load.ports \subseteq started

\* ------------------------------------------------------- token release properties
\* the inner handler of the request panicked
Panics(r) == log[r] # << >> /\ log[r][Len(log[r])] = <<"panic", "">>

\* C26: every admitted request gives back exactly one token when its inner
\* handler returns or panics: the tokens in a site's semaphore are at every
\* moment those of the admitted requests that have not yet run their deferred
\* release, a request leaves the wrapped handler only towards that release,
\* and the release takes exactly one token, once.
C26_OneReleasePerAdmission ==
    /\ [](\A s \in Sites : sem[s] = Cardinality(Holders(s)))
    /\ [][\A r \in Requests :
            site[r] # 0 =>
              /\ ( /\ Limit(site[r]) > 0 /\ InsideInner(r)
                   /\ pc'[r] \notin {"before", "handle", "inner", "after"} )
                 => (pc'[r] = "release" /\ sem'[site[r]] = sem[site[r]])
              /\ (pc[r] = "release" /\ pc'[r] # "release")
                 => (pc'[r] = "done" /\ sem'[site[r]] = sem[site[r]] - 1) ]_vars
    /\ [][\A s \in Sites :
            sem'[s] < sem[s] =>
               /\ sem'[s] = sem[s] - 1
               /\ \E r \in Requests :
                     site[r] = s /\ pc[r] = "release" /\ pc'[r] = "done" ]_vars

\* C26 witness: on a limited site a request whose inner handler panicked has
\* finished and the site's semaphore is empty again
C26_Witness ==
    \E r \in Requests :
        /\ site[r] # 0
        /\ Limit(site[r]) > 0
        /\ pc[r] = "done"
        /\ Panics(r)
        /\ sem[site[r]] = 0

\* ---------------------------------------------------------- proxy pool properties
\* C28: however the calls of getSharedReverseProxy follow one another, the
\* pool holds one instance per key and every instance was made once for its
\* key: callers with the same key hold the same instance, distinct keys have
\* distinct instances, a target that does not parse gets no instance and no
\* pool entry, and the pool changes only by one new entry for a new key.
C28_OneProxyPerKey ==
    /\ [](/\ \A c1, c2 \in DOMAIN siteProxy :
                ProxyKey(c1) = ProxyKey(c2) => siteProxy[c1] = siteProxy[c2]
          /\ \A i, j \in DOMAIN proxies :
                ProxyKey(proxies[i]) = ProxyKey(proxies[j]) => i = j
          /\ DOMAIN sharedProxyMap = { ProxyKey(proxies[i]) : i \in DOMAIN proxies }
          /\ \A i \in DOMAIN proxies : sharedProxyMap[ProxyKey(proxies[i])] = i
          /\ \A c \in DOMAIN siteProxy :
                /\ ~ParseFails(c.ProxyPass)
                /\ sharedProxyMap[ProxyKey(c)] = siteProxy[c]
          /\ \A i \in DOMAIN proxies : ~ParseFails(proxies[i].ProxyPass))
    /\ [][sharedProxyMap' # sharedProxyMap =>
            /\ proxies' = Append(proxies, proxies'[Len(proxies')])
            /\ ProxyKey(proxies'[Len(proxies')]) \notin DOMAIN sharedProxyMap
            /\ \A k \in DOMAIN sharedProxyMap : sharedProxyMap'[k] = sharedProxyMap[k]]_vars

\* C28 witness: two callers with one key hold the one instance made for it
C28_Witness ==
    /\ Len(proxies) = 1
    /\ \E c1, c2 \in DOMAIN siteProxy :
          c1 # c2 /\ ProxyKey(c1) = ProxyKey(c2) /\ siteProxy[c1] = siteProxy[c2]

\* -------------------------------------------------------- log entry pool properties
\* the number of places an entry is in: the pool, a producer's hands, the
\* channel (once for each time it is queued), the worker's hands
Places(e) ==
    (IF e \in logEntryPool THEN 1 ELSE 0)
    + Cardinality({ p \in Producers : entry[p] = e })
    + Cardinality({ i \in DOMAIN logChan : logChan[i] = e })
    + (IF workerEntry = e THEN 1 ELSE 0)

\* the entry is out of the pool
OutOfPool(e) == e \in DOMAIN logEntries /\ e \notin logEntryPool

\* C30: every LogEntry the logging middleware takes from the pool goes back
\* exactly once: an entry is always in exactly one place, it enters the pool
\* only from Log when the channel is full or from the worker that has written
\* it, a producer holds no entry once Log has returned and only the holder of
\* an entry fills it, and every entry out of the pool gets back into it.
C30_EntryReturnedOnce ==
    /\ [](/\ \A e \in DOMAIN logEntries : Places(e) = 1
          /\ \A p \in Producers : logPc[p] = "idle" <=> entry[p] = 0)
    /\ [][\A e \in DOMAIN logEntries :
            /\ (e \in logEntryPool' /\ e \notin logEntryPool) =>
                  \/ workerEntry = e /\ workerEntry' = 0
                  \/ \E p \in Producers :
                        /\ entry[p] = e /\ logPc[p] = "log" /\ entry'[p] = 0
                        /\ Len(logChan) = LogBufferSize
            /\ logEntries'[e] # logEntries[e] =>
                  \/ e \in logEntryPool' /\ e \notin logEntryPool
                  \/ \E p \in Producers : entry[p] = e /\ logPc[p] = "fill" ]_vars
    /\ \A e \in 1..MaxLogCalls : OutOfPool(e) ~> (e \in logEntryPool)

\* C30 witness: one entry went back from Log on a full channel, another is in
\* the worker's hands, and an entry that was returned is in use again
C30_Witness ==
    /\ drops > 0
    /\ workerEntry # 0
    /\ logEntryPool # {}
    /\ logCalls > Len(logEntries)

\* ------------------------------------------------------- static file properties
\* the client accepts the encoding: its Accept-Encoding names it and does not
\* refuse it with a weight of zero
Accepts(acceptEncoding, name) ==
    \E i \in DOMAIN acceptEncoding :
        /\ acceptEncoding[i] = name
        /\ ~(i + 1 \in DOMAIN acceptEncoding /\ acceptEncoding[i + 1] = ";q=0")

\* C23: for an existing file ServeStatic serves the .br sidecar when
\* Accept-Encoding includes br and the sidecar exists, otherwise the .gz
\* sidecar when it includes gzip and that sidecar exists, otherwise the file
\* itself; Content-Encoding is set exactly when a sidecar is served, the
\* client never gets an encoding it did not accept, and Vary: Accept-Encoding
\* is set in all three cases.
C23_SidecarNegotiation ==
    (static.pc = "done" /\ static.path \in {"file", "index"} /\ static.opens) =>
        /\ static.served =
              IF Contains(static.acceptEncoding, "br") /\ static.br = "file"
              THEN "br"
              ELSE IF Contains(static.acceptEncoding, "gzip") /\ static.gz = "file"
              THEN "gzip"
              ELSE "original"
        /\ static.header.ContentEncoding =
              (IF static.served = "original" THEN "" ELSE static.served)
        /\ static.served # "original" => Accepts(static.acceptEncoding, static.served)
        /\ static.header.Vary = "Accept-Encoding"

\* ------------------------------------------------------- token check properties
\* C25: with an API token configured a request reaches the next handler if
\* and only if its X-API-Token header, or, when that header is empty, the
\* Bearer token of its Authorization header, is the configured token; every
\* other request, one without any token included, is answered 401 and the next
\* handler is not called; with no token configured every request passes.
C25_TokenGate ==
    tokenAuth.pc = "done" =>
        IF tokenAuth.GlobalConf /\ tokenAuth.APIToken # << >>
        THEN /\ tokenAuth.next <=>
                  \/ tokenAuth.xToken = tokenAuth.APIToken
                  \/ /\ tokenAuth.xToken = << >>
                     /\ tokenAuth.authorization = BearerPrefix \o tokenAuth.APIToken
             /\ ~tokenAuth.next => tokenAuth.status = StatusUnauthorized
             /\ tokenAuth.next => tokenAuth.status = StatusOK
        ELSE tokenAuth.next /\ tokenAuth.status = StatusOK

\* C25 witness: with a token configured, a request that has no X-API-Token
\* header and the right Bearer token has reached the next handler
C25_Witness ==
    /\ tokenAuth.pc = "done"
    /\ tokenAuth.GlobalConf
    /\ tokenAuth.APIToken # << >>
    /\ tokenAuth.xToken = << >>
    /\ tokenAuth.authorization = BearerPrefix \o tokenAuth.APIToken
    /\ tokenAuth.next

\* ------------------------------------------------------- protected route properties
\* the request's site has the Auth plugin enabled with credentials and the
\* request's path starts with one of the site's protected prefixes
IsProtected(r) ==
    /\ site[r] # 0
    /\ LET host == StripPort(rq[r].host)
       IN  /\ host \in DOMAIN authSiteConfigs
           /\ authSiteConfigs[host].Enable
           /\ authSiteConfigs[host].HasCredentials
           /\ \E path \in authSiteConfigs[host].ProtectedPaths :
                  HasPrefix(rq[r].path, path)

\* the client has a session on the request's site, or the request carries
\* the name and password of a configured user
Authenticated(r) ==
    LET host == StripPort(rq[r].host)
    IN  \/ host \in DOMAIN authStates /\ authStates[host]
        \/ rq[r].auth \in authSiteConfigs[host].Credentials

\* the plugins' HandleRequest phase is over for the admitted request
PastHandleRequest(r) == pc[r] \in {"inner", "after", "release", "done"} /\ ~Rejected(r)

\* C24: on a site where the Auth plugin is enabled with credentials, a request
\* to a protected path that has neither a session nor the credentials of a
\* configured user is answered 401 and never reaches the inner handler.
C24_ProtectedRoutes ==
    \A r \in Requests :
        (IsProtected(r) /\ PastHandleRequest(r) /\ ~Authenticated(r)) =>
            /\ resp[r] = StatusUnauthorized
            /\ pc[r] # "inner"
            /\ \A i \in DOMAIN log[r] : log[r][i] # <<"ServeHTTP", "">>

\* ------------------------------------------------------- log entry reset properties
\* C31: every LogEntry that GetEntry hands out is fully reset: no logger, an
\* empty message and identifier and an empty field map, whether the entry is
\* new or was used for an earlier request; so is every entry in the pool.
C31_EntryResetOnGet ==
    /\ \A e \in logEntryPool : logEntries[e] = EmptyEntry
    /\ \A p \in Producers : logPc[p] = "fill" => logEntries[entry[p]] = EmptyEntry

\* C31 witness: a producer has got, and not yet filled, the only entry ever
\* allocated, which an earlier Log call has been through
C31_Witness ==
    /\ Len(logEntries) = 1
    /\ logCalls >= 1
    /\ \E p \in Producers : logPc[p] = "fill" /\ entry[p] = 1

\* ---------------------------------------------------------- shutdown properties
\* C32: once Shutdown has closed the log channel the worker writes the
\* entries queued before the close and ends, nothing more is queued, and a
\* request in flight that calls Log afterwards completes normally: its Log
\* call returns.
C32_ShutdownDrains ==
    /\ [](\A p \in Producers : logPc[p] # "panic")
    /\ [][logClosed => Len(logChan') <= Len(logChan)]_vars
    /\ logClosed ~> (logChan = << >> /\ workerEntry = 0)


\* ------------------------------------------- compression decision and pool
\* every piece of the body sent is a gzip block or the gzip trailer
AllGz(body) == \A i \in DOMAIN body : body[i][1] \in { "gz", "eof" }

\* C33: the choice between compressing and passing through is made once per
\* response, at the first WriteHeader or Write: nothing is sent before it,
\* no later WriteHeader, Write or header change alters it, and all body
\* bytes of the response take the same path, all gzip or all unencoded.
C33_DecisionOnce ==
    /\ [](~decision.made =>
             /\ ~gw.checked /\ ~gw.shouldCompress
             /\ written = << >> /\ wire.body = << >> /\ gzipWriter = << >>)
    /\ [](gw.wrapped => (gw.checked <=> decision.made))
    /\ [][decision.made => (decision' = decision /\ gw' = gw)]_vars
    /\ [](IF gw.shouldCompress
          THEN /\ AllGz(wire.body)
               /\ gzPc = "body" =>
                      wire.body = << >> /\ gzipWriter = Flatten(written)
          ELSE /\ AllRaw(wire.body)
               /\ gzipWriter = << >>
               /\ Flatten(Payloads(wire.body)) = Flatten(written))

\* C33 witness: a response was chosen for compression, the handler then set
\* a Content-Encoding of its own and wrote twice more.
C33_Witness ==
    /\ gzPc = "done"
    /\ gw.shouldCompress
    /\ decision.ContentEncoding = ""
    /\ header.ContentEncoding = ""
    /\ header.ContentType = << "image/png" >>
    /\ Len(written) = 2

\* C34: a gzip writer is taken from the pool only for a response that is
\* compressed, at most one per response, and it is closed and put back once
\* when the inner handler has returned or panicked, never before.
C34_WriterReturnedOnce ==
    /\ gzipWriterPool.gets = IF gw.shouldCompress THEN 1 ELSE 0
    /\ gzipWriterPool.closes = gzipWriterPool.puts
    /\ gzipWriterPool.puts =
           IF gzPc \in { "done", "panic" } THEN gzipWriterPool.gets ELSE 0

\* C34 witness: the handler of a compressed response panicked after a write.
C34_Witness ==
    /\ gzPc = "panic"
    /\ written # << >>
    /\ gzipWriterPool = [ gets |-> 1, closes |-> 1, puts |-> 1 ]


\* C38: when the inner handler has returned without writing any body byte,
\* the compression stage has sent no body byte to the client either.
C38_NoBodyNoBytes ==
    (gzPc = "done" /\ written = << >>) => wire.body = << >>


\* ------------------------------------------------- port groups, semaphores
\* the places a site has in the port groups
PlacesOf(s) ==
    { << p, i >> \in Ports \X (1..Len(Configs)) :
        i \in DOMAIN portConfigs[p] /\ portConfigs[p][i] = s }

\* C35: every site has exactly one place in the port groups, in the group of
\* its own port, and a group lists its sites in configuration order; a
\* port's radix tree holds sites of that port only, and a request is never
\* handed to a site configured on another port than the one it arrived at.
C35_OnePortGroupPerSite ==
    /\ \A s \in Sites :
          /\ Cardinality(PlacesOf(s)) = 1
          /\ \A pl \in PlacesOf(s) : pl[1] = Configs[s].port
    /\ \A p \in Ports : \A i, j \in DOMAIN portConfigs[p] :
          i < j => portConfigs[p][i] < portConfigs[p][j]
    /\ \A p \in Ports : \A x \in DOMAIN radixTree[p] :
          Configs[radixTree[p][x]].port = p
    /\ \A r \in Requests :
          (Arrived(r) /\ site[r] # 0) => Configs[site[r]].port = rq[r].port

\* C35 witness: while port 82 serves host g, a request for g that arrived at
\* port 80 was answered 404, and a request for a at the single-site port 81
\* went to that port's site.
C35_Witness ==
    /\ 82 \in serving
    /\ << "g" >> \in DOMAIN radixTree[82]
    /\ \E r \in Requests :
          /\ rq[r] = Req(80, << "g" >>, Index, << >>)
          /\ site[r] = 0 /\ resp[r] = StatusNotFound
    /\ \E r \in Requests :
          /\ rq[r] = Req(81, << "a" >>, Index, << >>)
          /\ site[r] = 4

\* C40: the tokens taken from a site's semaphore are those of the requests
\* of that site that hold one, and a request is answered 503 by the
\* admission stage only when the requests of its own site hold all of the
\* site's tokens: what other sites are doing, on the same port or not, has
\* no part in it.
C40_SemaphoresIndependent ==
    /\ [](\A s \in Sites : sem[s] = Cardinality(Holders(s)))
    /\ [][\A r \in Requests :
            ( /\ pc[r] = "admission"
              /\ resp'[r] = StatusServiceUnavailable )
            => Cardinality(Holders(site[r])) = Limit(site[r])]_vars

\* C40 witness: while the only token of site a is held, a request for b, on
\* the same port, has been admitted to b's inner handler.
C40_Witness ==
    \E r1, r2 \in Requests :
        /\ site[r1] = 1 /\ HoldsToken(r1)
        /\ sem[1] = Limit(1)
        /\ site[r2] = 2 /\ InsideInner(r2)
        /\ sem[2] = 1


\* ---------------------------------------------------------- DNS properties
\* the query asks for a name outside the zone
OutOfZone == \E i \in DOMAIN dns.Question : ~InZone(dns.Question[i])

\* C36: a query is answered with exactly one message.  For a name outside
\* the zone with upstream resolvers configured, the resolvers are asked in
\* configured order; the first answer received is relayed, marked as not
\* authoritative, and no resolver is asked after it; the handler's own
\* SERVFAIL is sent only when every resolver has returned an error.  With no
\* upstream configured the answer is NXDOMAIN and nothing is asked.
C36_Failover ==
    /\ Len(dns.written) = IF dns.pc = "done" THEN 1 ELSE 0
    /\ Len(dns.exchanged) <= Len(dns.UpstreamResolvers)
    /\ \A k \in DOMAIN dns.exchanged :
          /\ dns.exchanged[k].target = Target(dns.UpstreamResolvers[k])
          /\ k < Len(dns.exchanged) => dns.exchanged[k].out.err
    /\ ~OutOfZone => dns.exchanged = << >>
    /\ (dns.pc = "done" /\ OutOfZone) =>
          LET m == dns.written[1]
              n == Len(dns.exchanged)
          IN  IF dns.UpstreamResolvers = << >>
              THEN m.Rcode = RcodeNameError /\ m.origin = "handler" /\ n = 0
              ELSE \/ /\ m.origin = "upstream"
                      /\ n >= 1
                      /\ ~dns.exchanged[n].out.err
                      /\ m.Rcode = dns.exchanged[n].out.Rcode
                      /\ m.Answer = dns.exchanged[n].out.Answer
                      /\ ~m.Authoritative
                   \/ /\ m = ServerFailure
                      /\ n = Len(dns.UpstreamResolvers)
                      /\ \A k \in 1..n : dns.exchanged[k].out.err

\* C36 witness: the first of two resolvers returned an error and the answer
\* of the second, which called itself authoritative, was relayed.
C36_Witness ==
    /\ dns.pc = "done"
    /\ dns.Question = << << "google.com", "." >> >>
    /\ Len(dns.UpstreamResolvers) = 2
    /\ Len(dns.exchanged) = 2
    /\ dns.exchanged[1].target = << "10.0.0.1", ":", "53" >>
    /\ dns.exchanged[1].out.err
    /\ dns.exchanged[2].out.Authoritative
    /\ dns.written[1].origin = "upstream"


\* ------------------------------------------------ declining plugin property
\* C37: a HandleRequest call that returns false leaves the response as it
\* was: it has sent no status and written nothing.
C37_DeclinedWritesNothing ==
    [][\A r \in Requests :
          ( /\ pc[r] = "handle"
            /\ Len(log'[r]) = Len(log[r]) + 1
            /\ log'[r][Len(log'[r])][1] = "HandleRequest:false" )
          => ( resp'[r] = resp[r] /\ statusCode'[r] = statusCode[r] )]_vars


\* the path is the directory or lies below it
Under(dir, path) ==
    /\ HasPrefix(path, dir)
    /\ Len(path) > Len(dir) => path[Len(dir) + 1] = "/"

====
